---- MODULE Spec2Model ----
(***************************************************************************)
(* Model of src/trees.py (AVLTree, MyTree, UndoTree, SaveStateTree) and of *)
(* the driver loop of src/image_sort.py.                                   *)
(*                                                                         *)
(* A tree node is a record [value, left, right, height, min_height]; the   *)
(* Python None is NIL.  Node objects are mutated in place by the code; the *)
(* model rebuilds the record with the same field updates in the same       *)
(* order, so stored heights are exactly the values the code stores.        *)
(***************************************************************************)
EXTENDS Integers, Sequences, FiniteSets, TLC

\* ---------------------------------------------------------------- bounds
MaxVal == 8        \* SpecTree inserts and deletes values 1..MaxVal
MaxItems == 3      \* Spec sorts image lists of at most MaxItems items
MaxUndo == 3       \* UNDO answers per behaviour
MaxExit == 2       \* EXIT answers per behaviour
UndoItems == 6     \* SpecUndo sorts image lists of at most UndoItems items
MaxDelete == 2     \* SpecFile: consecutive calls of delete_file
AppItems == 3      \* SpecApp sorts image lists of at most AppItems items
MaxClick == 3      \* SpecApp: selections and undos of the user per behaviour
ReplayItems == 4   \* SpecReplay sorts image lists of ReplayItems items
EqVal == 3         \* SpecEqual inserts values 1..EqVal, any of them repeatedly
EqSize == 7        \* SpecEqual holds at most EqSize values

\* ------------------------------------------------------------- utilities
NIL == [nil |-> TRUE]

Max(a, b) == IF a >= b THEN a ELSE b
Min(a, b) == IF a <= b THEN a ELSE b

Last(s) == s[Len(s)]
Front(s) == SubSeq(s, 1, Len(s) - 1)
SeqSet(s) == {s[i] : i \in 1..Len(s)}

RECURSIVE CeilLog2(_)
\* smallest h with 2^h >= n, for n >= 1
CeilLog2(n) == IF n <= 1 THEN 0 ELSE 1 + CeilLog2((n + 1) \div 2)

RECURSIVE Perms(_)
\* all orderings of the set S
Perms(S) == IF S = {} THEN {<<>>}
            ELSE UNION {{<<x>> \o p : p \in Perms(S \ {x})} : x \in S}

RECURSIVE SortedSeq(_)
\* the elements of the set S of integers, ascending
SortedSeq(S) == IF S = {} THEN <<>>
                ELSE LET m == CHOOSE x \in S : \A y \in S : x <= y
                     IN <<m>> \o SortedSeq(S \ {m})

\* ------------------------------------------------- AVLTree / MyTree nodes
RECURSIVE balance(_), insert_min(_, _), delete_max(_), insert_max(_, _)
RECURSIVE delete_min(_), insert(_, _), delete(_, _), to_list(_, _)
RECURSIVE get_min_node(_), get_max_node(_)

\* MyTree._Node.__init__
Node(value) == [value |-> value, left |-> NIL, right |-> NIL,
                height |-> 1, min_height |-> 1]

get_height(node) == IF node = NIL THEN 0 ELSE node.height

get_min_height(node) == IF node = NIL THEN 0 ELSE node.min_height

\* AVLTree._update_height alone: min_height is left as it was
update_height_heightOnly(node) ==
    [node EXCEPT !.height = 1 + Max(get_height(node.left), get_height(node.right))]

\* MyTree._update_height: both stored fields, from the children's stored fields
update_height(node) ==
    [node EXCEPT !.height = 1 + Max(get_height(node.left), get_height(node.right)),
                 !.min_height = 1 + Min(get_min_height(node.left),
                                        get_min_height(node.right))]

get_balance(node) == get_height(node.left) - get_height(node.right)

get_min_node(node) == IF node.left = NIL THEN node ELSE get_min_node(node.left)

get_max_node(node) == IF node.right = NIL THEN node ELSE get_max_node(node.right)

left_rotate(node) ==
    LET right_node == node.right
        right_left_node == right_node.left
        below == update_height([node EXCEPT !.right = right_left_node])
    IN update_height([right_node EXCEPT !.left = below])

right_rotate(node) ==
    LET left_node == node.left
        left_right_node == left_node.right
        below == update_height([node EXCEPT !.left = left_right_node])
    IN update_height([left_node EXCEPT !.right = below])

\* AVLTree._balance
avl_balance(node0) ==
    LET node == update_height(node0)
        bal == get_balance(node)
    IN IF bal > 1
       THEN IF get_balance(node.left) < 0
            THEN right_rotate([node EXCEPT !.left = left_rotate(node.left)])
            ELSE right_rotate(node)
       ELSE IF bal < -1
       THEN IF get_balance(node.right) > 0
            THEN left_rotate([node EXCEPT !.right = right_rotate(node.right)])
            ELSE left_rotate(node)
       ELSE node

\* insert_min, local to MyTree._right_shift
insert_min(node, value) ==
    IF node = NIL THEN Node(value)
    ELSE balance([node EXCEPT !.left = insert_min(node.left, value)])

\* delete_max, local to MyTree._right_shift
delete_max(node) ==
    IF node = NIL THEN node
    ELSE IF node.right = NIL THEN node.left
    ELSE balance([node EXCEPT !.right = delete_max(node.right)])

\* insert_max, local to MyTree._left_shift
insert_max(node, value) ==
    IF node = NIL THEN Node(value)
    ELSE balance([node EXCEPT !.right = insert_max(node.right, value)])

\* delete_min, local to MyTree._left_shift
delete_min(node) ==
    IF node = NIL THEN node
    ELSE IF node.left = NIL THEN node.right
    ELSE balance([node EXCEPT !.left = delete_min(node.left)])

\* MyTree._right_shift that does not put the old root value into the right
\* subtree
right_shift_dropRoot(root) ==
    LET r1 == [root EXCEPT !.value = get_max_node(root.left).value]
        r2 == [r1 EXCEPT !.left = delete_max(r1.left)]
    IN update_height(r2)

right_shift(root) ==
    LET root_value == root.value
        r1 == [root EXCEPT !.value = get_max_node(root.left).value]
        r2 == [r1 EXCEPT !.left = delete_max(r1.left)]
        r3 == [r2 EXCEPT !.right = insert_min(r2.right, root_value)]
    IN update_height(r3)

\* MyTree._left_shift that leaves the subtree as it is
left_shift_none(root) == root

left_shift(root) ==
    LET root_value == root.value
        r1 == [root EXCEPT !.value = get_min_node(root.right).value]
        r2 == [r1 EXCEPT !.right = delete_min(r1.right)]
        r3 == [r2 EXCEPT !.left = insert_max(r2.left, root_value)]
    IN update_height(r3)

\* MyTree._balance that refreshes the heights and moves nothing
balance_none(node0) == update_height(node0)

\* MyTree._balance without the shift pass
balance_no_shift(node0) == avl_balance(node0)

\* MyTree._balance
balance(node0) ==
    LET node == avl_balance(node0)
    IN IF get_height(node) - get_min_height(node) > 1
       THEN IF get_min_height(node.left) - get_min_height(node.right) > 0
            THEN right_shift(node)
            ELSE left_shift(node)
       ELSE node

\* AVLTree._insert that adds no node for a value equal to one in the tree
insert_mergeEqual(node, value) ==
    IF node = NIL THEN Node(value)
    ELSE IF value = node.value THEN node
    ELSE IF value < node.value
    THEN balance([node EXCEPT !.left = insert(node.left, value)])
    ELSE balance([node EXCEPT !.right = insert(node.right, value)])

\* AVLTree._insert on integers, the comparison being the integer order
insert(node, value) ==
    IF node = NIL THEN Node(value)
    ELSE IF value < node.value
    THEN balance([node EXCEPT !.left = insert(node.left, value)])
    ELSE balance([node EXCEPT !.right = insert(node.right, value)])

\* AVLTree._delete on integers
delete(node, value) ==
    IF node = NIL THEN node
    ELSE IF value < node.value
    THEN balance([node EXCEPT !.left = delete(node.left, value)])
    ELSE IF value > node.value
    THEN balance([node EXCEPT !.right = delete(node.right, value)])
    ELSE IF node.left = NIL THEN node.right
    ELSE IF node.right = NIL THEN node.left
    ELSE LET n1 == [node EXCEPT !.value = get_min_node(node.right).value]
         IN balance([n1 EXCEPT !.right = delete(n1.right, n1.value)])

\* AVLTree._to_list
to_list(node, preorder) ==
    IF node = NIL THEN <<>>
    ELSE LET left == to_list(node.left, preorder)
             right == to_list(node.right, preorder)
             root_ == <<node.value>>
         IN IF preorder THEN root_ \o left \o right ELSE left \o root_ \o right

RECURSIVE comparisons_of(_, _)
\* AVLTest._insert of comparison_test.py: one comparison per non-empty node
\* the descent visits
comparisons_of(node, value) ==
    IF node = NIL THEN 0
    ELSE 1 + comparisons_of(IF value < node.value THEN node.left ELSE node.right,
                            value)

\* ------------------------------------------------ structural measurements
RECURSIVE Height(_), MinHeight(_), Subtrees(_)
Height(node) == IF node = NIL THEN 0
                ELSE 1 + Max(Height(node.left), Height(node.right))

MinHeight(node) == IF node = NIL THEN 0
                   ELSE 1 + Min(MinHeight(node.left), MinHeight(node.right))

\* every non-empty subtree of node
Subtrees(node) == IF node = NIL THEN {}
                  ELSE {node} \cup Subtrees(node.left) \cup Subtrees(node.right)

Size(node) == Len(to_list(node, FALSE))

\* ----------------------------------------------- the call stack machine
(***************************************************************************)
(* UndoTree and SaveStateTree are recursive and route control with         *)
(* exceptions.  A machine m is the object's attributes (root, values,      *)
(* nodes, roots, resume), the Python call stack (top frame last) and a     *)
(* control register ctl: a call about to run its body ("invoke"), a value  *)
(* being returned ("ret"), an exception propagating ("raise"), or a point  *)
(* where the machine waits: the oracle ("ask"), the storage ("exit_open",  *)
(* "exit_dump"), or the caller (empty stack).                              *)
(* A node reference held by a frame is the path `at` ("L"/"R" steps) from  *)
(* self.root; `node == self.root` is `at = <<>>`.                          *)
(***************************************************************************)
RECURSIVE Sub(_, _)
\* the node object reached from `node` by the child steps `at`
Sub(node, at) == IF at = <<>> THEN node
                 ELSE IF node = NIL THEN NIL
                 ELSE Sub(IF Head(at) = "L" THEN node.left ELSE node.right, Tail(at))

Ctl(k) == [k |-> k, f |-> "", at |-> <<>>, value |-> 0, path |-> <<>>,
           alias |-> FALSE, v |-> NIL, e |-> ""]

Invoke(f, at, value, path, alias) ==
    [Ctl("invoke") EXCEPT !.f = f, !.at = at, !.value = value, !.path = path,
                          !.alias = alias]

Ret(v) == [Ctl("ret") EXCEPT !.v = v]

Raise(e) == [Ctl("raise") EXCEPT !.e = e]

Frame(f, phase, at, value, path, alias) ==
    [f |-> f, phase |-> phase, at |-> at, value |-> value, path |-> path,
     alias |-> alias, dir |-> ""]

Top(m) == Last(m.stack)

Pop(m) == [m EXCEPT !.stack = Front(m.stack)]

Push(m, fr) == [m EXCEPT !.stack = Append(m.stack, fr)]

SetTop(m, fr) == [m EXCEPT !.stack = Append(Front(m.stack), fr)]

Go(m, c) == [m EXCEPT !.ctl = c]

\* self.nodes[-1].append(x)
NodesAppend(m, x) ==
    [m EXCEPT !.nodes = Append(Front(m.nodes), Append(Last(m.nodes), x))]

\* self.nodes[-1].pop()
NodesPopLast(m) ==
    [m EXCEPT !.nodes = Append(Front(m.nodes), Front(Last(m.nodes)))]

\* node.left = v or node.right = v, then self._balance(node)
Attach(node, dir, v) ==
    balance(IF dir = "L" THEN [node EXCEPT !.left = v] ELSE [node EXCEPT !.right = v])

\* SaveStateTree.insert: the call
Call_SaveStateTree_insert(m) ==
    Go(Push(m, Frame("SaveStateTree.insert", "try", <<>>, m.ctl.value, <<>>, FALSE)),
       Invoke("UndoTree.insert", <<>>, m.ctl.value, <<>>, FALSE))

\* SaveStateTree.insert that lets Exit pass without calling self.exit()
Resume_SaveStateTree_insert_noSave(m) ==
    IF m.ctl.k = "ret" THEN Go(Pop(m), Ret(NIL)) ELSE Go(Pop(m), m.ctl)

\* SaveStateTree.insert: a return or an exception reaches its frame
Resume_SaveStateTree_insert(m) ==
    IF m.ctl.k = "ret" THEN Go(Pop(m), Ret(NIL))
    ELSE IF Top(m).phase = "try" /\ m.ctl.e = "Exit"
    THEN \* except self.Exit: self.exit()
         Go(SetTop(m, [Top(m) EXCEPT !.phase = "exit"]), Ctl("exit_open"))
    ELSE Go(Pop(m), m.ctl)

\* UndoTree.insert: the call, up to super().insert(value)
Call_UndoTree_insert(m) ==
    LET m1 == [m EXCEPT !.nodes = Append(m.nodes, <<>>),
                        !.values = Append(m.values, m.ctl.value)]
    IN Go(Push(m1, Frame("UndoTree.insert", "try", <<>>, m.ctl.value, <<>>, FALSE)),
          Invoke("AVLTree.insert", <<>>, m.ctl.value, <<>>, FALSE))

\* UndoTree.insert without "except self._Cancel"
Resume_UndoTree_insert_noCancel(m) ==
    IF m.ctl.k = "ret"
    THEN IF Top(m).phase = "try" /\ m.resume # <<>>
         THEN Go(SetTop([m EXCEPT !.resume = Front(m.resume)],
                        [Top(m) EXCEPT !.phase = "resume"]),
                 Invoke("SaveStateTree.insert", <<>>, Last(m.resume), <<>>, FALSE))
         ELSE Go(Pop(m), Ret(NIL))
    ELSE Go(Pop(m), m.ctl)

\* UndoTree.insert that retries the oldest deferred value (resume.pop(0))
After_UndoTree_insert_fifo(m) ==
    IF m.resume # <<>>
    THEN Go(SetTop([m EXCEPT !.resume = Tail(m.resume)],
                   [Top(m) EXCEPT !.phase = "resume"]),
            Invoke("SaveStateTree.insert", <<>>, Head(m.resume), <<>>, FALSE))
    ELSE Go(Pop(m), Ret(NIL))

\* UndoTree.insert: after the try statement, "if self.resume: ..."
After_UndoTree_insert(m) ==
    IF m.resume # <<>>
    THEN Go(SetTop([m EXCEPT !.resume = Front(m.resume)],
                   [Top(m) EXCEPT !.phase = "resume"]),
            Invoke("SaveStateTree.insert", <<>>, Last(m.resume), <<>>, FALSE))
    ELSE Go(Pop(m), Ret(NIL))

\* UndoTree.insert that treats Exit like _Cancel and goes on to self.resume
Resume_UndoTree_insert_exitRetries(m) ==
    IF Top(m).phase = "try"
    THEN IF m.ctl.k = "ret" \/ m.ctl.e \in {"_Cancel", "Exit"}
         THEN After_UndoTree_insert(m)
         ELSE Go(Pop(m), m.ctl)
    ELSE IF m.ctl.k = "ret" THEN Go(Pop(m), Ret(NIL)) ELSE Go(Pop(m), m.ctl)

Resume_UndoTree_insert(m) ==
    IF Top(m).phase = "try"
    THEN IF m.ctl.k = "ret" \/ m.ctl.e = "_Cancel"
         THEN After_UndoTree_insert(m)
         ELSE Go(Pop(m), m.ctl)
    ELSE \* the recursive self.insert(self.resume.pop()) is over
         IF m.ctl.k = "ret" THEN Go(Pop(m), Ret(NIL)) ELSE Go(Pop(m), m.ctl)

\* AVLTree.insert on a tree whose last snapshot shares its nodes with the
\* live tree (self.roots.append(self.root), no deepcopy): the assignment to
\* the root shows in the snapshot
Resume_AVLTree_insert_sharedSnapshot(m) ==
    IF m.ctl.k = "ret"
    THEN Go(Pop([m EXCEPT !.root = m.ctl.v,
                          !.roots = IF m.roots = <<>> THEN m.roots
                                    ELSE Append(Front(m.roots), m.ctl.v)]),
            Ret(NIL))
    ELSE Go(Pop(m), m.ctl)

\* AVLTree.insert: self.root = self._insert(self.root, value)
Call_AVLTree_insert(m) ==
    Go(Push(m, Frame("AVLTree.insert", "try", <<>>, m.ctl.value, <<>>, FALSE)),
       Invoke("_insert", <<>>, m.ctl.value, <<>>, FALSE))

Resume_AVLTree_insert(m) ==
    IF m.ctl.k = "ret" THEN Go(Pop([m EXCEPT !.root = m.ctl.v]), Ret(NIL))
    ELSE Go(Pop(m), m.ctl)

\* UndoTree._insert that stores no copy of the root before it adds the leaf
Call_insert_noSnapshot(m) ==
    LET node == Sub(m.root, m.ctl.at)
    IN IF node = NIL
       THEN Go(m, Ret(Node(m.ctl.value)))
       ELSE IF m.nodes = <<>> THEN Go(m, Raise("IndexError"))
       ELSE Go(Push(NodesAppend(m, node.value),
                    Frame("_insert", "try", m.ctl.at, m.ctl.value, <<>>, FALSE)),
               Ctl("ask"))

\* UndoTree._insert with AVLTree._insert inlined: the call, up to the
\* comparison "value < node.value" or to the new leaf
Call_insert(m) ==
    LET node == Sub(m.root, m.ctl.at)
    IN IF node = NIL
       THEN LET m1 == IF m.root # NIL
                      THEN [m EXCEPT !.roots = Append(m.roots, m.root)]
                      ELSE m
            IN Go(m1, Ret(Node(m.ctl.value)))
       ELSE IF m.nodes = <<>> THEN Go(m, Raise("IndexError"))
       ELSE Go(Push(NodesAppend(m, node.value),
                    Frame("_insert", "try", m.ctl.at, m.ctl.value, <<>>, FALSE)),
               Ctl("ask"))

\* AVLTree._insert descending into the wrong subtree
Answer_insert_swapped(m, a) ==
    IF a = "LESS" \/ a = "GREATER"
    THEN LET d == IF a = "LESS" THEN "R" ELSE "L"
         IN Go(SetTop(m, [Top(m) EXCEPT !.dir = d]),
               Invoke("_insert", Append(Top(m).at, d), Top(m).value, <<>>, FALSE))
    ELSE IF a = "UNDO" THEN Go(m, Raise("UndoClicked"))
    ELSE Go(m, Raise("Exit"))

\* AVLTree._insert that tests "value < node.value" and then, as _delete
\* does, "value > node.value": an item that is not smaller is compared with
\* the same node a second time
Answer_insert_twoTests(m, a) ==
    IF a = "LESS" \/ (a = "GREATER" /\ Top(m).phase = "second")
    THEN LET d == IF a = "LESS" THEN "L" ELSE "R"
         IN Go(SetTop(m, [Top(m) EXCEPT !.dir = d, !.phase = "try"]),
               Invoke("_insert", Append(Top(m).at, d), Top(m).value, <<>>, FALSE))
    ELSE IF a = "GREATER"
    THEN Go(SetTop(m, [Top(m) EXCEPT !.phase = "second"]), Ctl("ask"))
    ELSE IF a = "UNDO" THEN Go(m, Raise("UndoClicked"))
    ELSE Go(m, Raise("Exit"))

\* the oracle's answer arrives at the comparison of the top _insert frame
Answer_insert(m, a) ==
    IF a = "LESS" \/ a = "GREATER"
    THEN LET d == IF a = "LESS" THEN "L" ELSE "R"
         IN Go(SetTop(m, [Top(m) EXCEPT !.dir = d]),
               Invoke("_insert", Append(Top(m).at, d), Top(m).value, <<>>, FALSE))
    ELSE IF a = "UNDO" THEN Go(m, Raise("UndoClicked"))
    ELSE Go(m, Raise("Exit"))

\* the handler that leaves the comparisons of the current value in
\* self.nodes: no self.nodes.pop()
UndoPastRoot_keepNodes(m) ==
    LET fr == Top(m)
    IN IF m.roots = <<>>
       THEN Go(SetTop([m EXCEPT !.values = Front(m.values)],
                      [fr EXCEPT !.phase = "restart"]),
               Invoke("SaveStateTree.insert", <<>>, Last(m.values), <<>>, FALSE))
       ELSE LET m2 == [m EXCEPT !.resume = Append(m.resume, Last(m.values)),
                                !.values = Front(m.values),
                                !.root = Last(m.roots),
                                !.roots = Front(m.roots)]
            IN Go(SetTop(m2, [fr EXCEPT !.phase = "rollback"]),
                  Invoke("_redo", <<>>, Last(m2.values), Last(m2.nodes), TRUE))

\* the rollback that pops the snapshot and redoes the previous insertion on
\* the live tree: self.roots.pop() without the assignment to self.root
UndoPastRoot_liveRoot(m) ==
    LET fr == Top(m)
        m1 == [m EXCEPT !.nodes = Front(m.nodes)]
    IN IF m1.roots = <<>>
       THEN Go(SetTop([m1 EXCEPT !.values = Front(m1.values)],
                      [fr EXCEPT !.phase = "restart"]),
               Invoke("SaveStateTree.insert", <<>>, Last(m1.values), <<>>, FALSE))
       ELSE LET m2 == [m1 EXCEPT !.resume = Append(m1.resume, Last(m1.values)),
                                 !.values = Front(m1.values),
                                 !.roots = Front(m1.roots)]
            IN Go(SetTop(m2, [fr EXCEPT !.phase = "rollback"]),
                  Invoke("_redo", <<>>, Last(m2.values), Last(m2.nodes), TRUE))

\* the rollback that reads the top snapshot without popping it:
\* self.root = self.roots[-1]
UndoPastRoot_keepSnapshot(m) ==
    LET fr == Top(m)
        m1 == [m EXCEPT !.nodes = Front(m.nodes)]
    IN IF m1.roots = <<>>
       THEN Go(SetTop([m1 EXCEPT !.values = Front(m1.values)],
                      [fr EXCEPT !.phase = "restart"]),
               Invoke("SaveStateTree.insert", <<>>, Last(m1.values), <<>>, FALSE))
       ELSE LET m2 == [m1 EXCEPT !.resume = Append(m1.resume, Last(m1.values)),
                                 !.values = Front(m1.values),
                                 !.root = Last(m1.roots)]
            IN Go(SetTop(m2, [fr EXCEPT !.phase = "rollback"]),
                  Invoke("_redo", <<>>, Last(m2.values), Last(m2.nodes), TRUE))

\* the restart that leaves the current value in self.values: the handler
\* calls self.insert(self.values[-1])
UndoPastRoot_keepValue(m) ==
    LET fr == Top(m)
        m1 == [m EXCEPT !.nodes = Front(m.nodes)]
    IN IF m1.roots = <<>>
       THEN Go(SetTop(m1, [fr EXCEPT !.phase = "restart"]),
               Invoke("SaveStateTree.insert", <<>>, Last(m1.values), <<>>, FALSE))
       ELSE LET m2 == [m1 EXCEPT !.resume = Append(m1.resume, Last(m1.values)),
                                 !.values = Front(m1.values),
                                 !.root = Last(m1.roots),
                                 !.roots = Front(m1.roots)]
            IN Go(SetTop(m2, [fr EXCEPT !.phase = "rollback"]),
                  Invoke("_redo", <<>>, Last(m2.values), Last(m2.nodes), TRUE))

\* the rollback that forgets to move the current value to self.resume
UndoPastRoot_dropItem(m) ==
    LET fr == Top(m)
        m1 == [m EXCEPT !.nodes = Front(m.nodes)]
    IN IF m1.roots = <<>>
       THEN Go(SetTop([m1 EXCEPT !.values = Front(m1.values)],
                      [fr EXCEPT !.phase = "restart"]),
               Invoke("SaveStateTree.insert", <<>>, Last(m1.values), <<>>, FALSE))
       ELSE LET m2 == [m1 EXCEPT !.values = Front(m1.values),
                                 !.root = Last(m1.roots),
                                 !.roots = Front(m1.roots)]
            IN Go(SetTop(m2, [fr EXCEPT !.phase = "rollback"]),
                  Invoke("_redo", <<>>, Last(m2.values), Last(m2.nodes), TRUE))

\* UndoTree._insert, "except self.UndoClicked:" with node == self.root
UndoPastRoot(m) ==
    LET fr == Top(m)
        m1 == [m EXCEPT !.nodes = Front(m.nodes)]
    IN IF m1.roots = <<>>
       THEN \* self.insert(self.values.pop())
            IF m1.values = <<>> THEN Go(m1, Raise("IndexError"))
            ELSE Go(SetTop([m1 EXCEPT !.values = Front(m1.values)],
                           [fr EXCEPT !.phase = "restart"]),
                    Invoke("SaveStateTree.insert", <<>>, Last(m1.values), <<>>, FALSE))
       ELSE IF m1.values = <<>> THEN Go(m1, Raise("IndexError"))
       ELSE LET m2 == [m1 EXCEPT !.resume = Append(m1.resume, Last(m1.values)),
                                 !.values = Front(m1.values),
                                 !.root = Last(m1.roots),
                                 !.roots = Front(m1.roots)]
            IN IF m2.values = <<>> \/ m2.nodes = <<>>
               THEN Go(m2, Raise("IndexError"))
               ELSE Go(SetTop(m2, [fr EXCEPT !.phase = "rollback"]),
                       Invoke("_redo", <<>>, Last(m2.values), Last(m2.nodes), TRUE))

\* UndoTree._insert whose "except self._Undo:" keeps the comparison in
\* self.nodes[-1] before it compares again
Resume_insert_keepComparison(m) ==
    LET fr == Top(m)
    IN IF fr.phase = "try"
       THEN IF m.ctl.k = "ret"
            THEN Go(Pop(m), Ret(Attach(Sub(m.root, fr.at), fr.dir, m.ctl.v)))
            ELSE IF m.ctl.e = "UndoClicked"
            THEN IF fr.at = <<>>
                 THEN IF m.nodes = <<>> THEN Go(m, [m.ctl EXCEPT !.e = "IndexError"])
                      ELSE UndoPastRoot(m)
                 ELSE IF m.nodes = <<>> \/ Last(m.nodes) = <<>>
                      THEN Go(Pop(m), Raise("IndexError"))
                      ELSE Go(Pop(NodesPopLast(m)), Raise("_Undo"))
            ELSE IF m.ctl.e = "_Undo"
            THEN Go(SetTop(m, [fr EXCEPT !.phase = "retry"]),
                    Invoke("_insert", fr.at, fr.value, <<>>, FALSE))
            ELSE Go(Pop(m), m.ctl)
       ELSE IF m.ctl.k = "raise" THEN Go(Pop(m), m.ctl)
       ELSE IF fr.phase = "retry" THEN Go(Pop(m), m.ctl)
       ELSE IF fr.phase = "restart" THEN Go(Pop(m), Raise("_Cancel"))
       ELSE Go(Pop([m EXCEPT !.root = m.ctl.v]), Raise("_Cancel"))

\* UndoTree._insert: a return or an exception reaches its frame
Resume_insert(m) ==
    LET fr == Top(m)
    IN IF fr.phase = "try"
       THEN IF m.ctl.k = "ret"
            THEN Go(Pop(m), Ret(Attach(Sub(m.root, fr.at), fr.dir, m.ctl.v)))
            ELSE IF m.ctl.e = "UndoClicked"
            THEN IF fr.at = <<>>
                 THEN IF m.nodes = <<>> THEN Go(m, [m.ctl EXCEPT !.e = "IndexError"])
                      ELSE UndoPastRoot(m)
                 ELSE IF m.nodes = <<>> \/ Last(m.nodes) = <<>>
                      THEN Go(Pop(m), Raise("IndexError"))
                      ELSE Go(Pop(NodesPopLast(m)), Raise("_Undo"))
            ELSE IF m.ctl.e = "_Undo"
            THEN IF m.nodes = <<>> \/ Last(m.nodes) = <<>>
                 THEN Go(Pop(m), Raise("IndexError"))
                 ELSE Go(SetTop(NodesPopLast(m), [fr EXCEPT !.phase = "retry"]),
                         Invoke("_insert", fr.at, fr.value, <<>>, FALSE))
            ELSE Go(Pop(m), m.ctl)
       ELSE IF m.ctl.k = "raise" THEN Go(Pop(m), m.ctl)
       ELSE IF fr.phase = "retry" THEN Go(Pop(m), m.ctl)
       ELSE IF fr.phase = "restart" THEN Go(Pop(m), Raise("_Cancel"))
       ELSE \* rollback: self.root = self._redo(...); raise self._Cancel
            Go(Pop([m EXCEPT !.root = m.ctl.v]), Raise("_Cancel"))

\* the list a _redo frame knows as `path`: the top-level call is handed
\* self.nodes[-1] itself, the recursive calls a slice (a copy)
PathOf(m, fr) == IF fr.alias
                 THEN IF m.nodes = <<>> THEN <<>> ELSE Last(m.nodes)
                 ELSE fr.path

\* UndoTree._redo that does not walk the path: it inserts at the node given
Call_redo_here(m) ==
    LET c == m.ctl
        fr == Frame("_redo", "try", c.at, c.value, c.path, c.alias)
    IN Go(NodesPopLast(Push(m, fr)), Invoke("_insert", c.at, c.value, <<>>, FALSE))

\* UndoTree._redo: the call
Call_redo(m) ==
    LET c == m.ctl
        node == Sub(m.root, c.at)
        fr == Frame("_redo", "try", c.at, c.value, c.path, c.alias)
        m1 == Push(m, fr)
        path == PathOf(m, fr)
    IN IF Len(path) <= 1
       THEN IF m.nodes = <<>> \/ Last(m.nodes) = <<>>
            THEN Go(m1, Raise("IndexError"))
            ELSE Go(NodesPopLast(m1), Invoke("_insert", c.at, c.value, <<>>, FALSE))
       ELSE IF node = NIL THEN Go(m1, Raise("AttributeError"))
       ELSE IF node.left # NIL /\ node.left.value = path[2]
       THEN Go(SetTop(m1, [fr EXCEPT !.dir = "L"]),
               Invoke("_redo", Append(c.at, "L"), c.value, Tail(path), FALSE))
       ELSE IF node.right # NIL /\ node.right.value = path[2]
       THEN Go(SetTop(m1, [fr EXCEPT !.dir = "R"]),
               Invoke("_redo", Append(c.at, "R"), c.value, Tail(path), FALSE))
       ELSE Go(m, Ret(balance(node)))

\* UndoTree._redo whose "except self._Undo:" compares again at the same node
\* instead of raising _Redo
Resume_redo_noCascade(m) ==
    LET fr == Top(m)
        path == PathOf(m, fr)
    IN IF fr.phase = "try"
       THEN IF m.ctl.k = "ret"
            THEN IF fr.dir = "" THEN Go(Pop(m), m.ctl)
                 ELSE Go(Pop(m), Ret(Attach(Sub(m.root, fr.at), fr.dir, m.ctl.v)))
            ELSE IF m.ctl.e = "_Undo"
            THEN Go(SetTop(m, [fr EXCEPT !.phase = "handler"]),
                    Invoke("_insert", fr.at, fr.value, <<>>, FALSE))
            ELSE IF m.ctl.e = "_Redo"
            THEN Go(SetTop(m, [fr EXCEPT !.phase = "handler"]),
                    Invoke("_redo", fr.at, fr.value,
                           IF path = <<>> THEN <<>> ELSE <<path[1]>>, FALSE))
            ELSE Go(Pop(m), m.ctl)
       ELSE Go(Pop(m), m.ctl)

\* UndoTree._redo: a return or an exception reaches its frame
Resume_redo(m) ==
    LET fr == Top(m)
        path == PathOf(m, fr)
    IN IF fr.phase = "try"
       THEN IF m.ctl.k = "ret"
            THEN IF fr.dir = "" THEN Go(Pop(m), m.ctl)
                 ELSE Go(Pop(m), Ret(Attach(Sub(m.root, fr.at), fr.dir, m.ctl.v)))
            ELSE IF m.ctl.e = "_Undo" THEN Go(Pop(m), Raise("_Redo"))
            ELSE IF m.ctl.e = "_Redo"
            THEN Go(SetTop(m, [fr EXCEPT !.phase = "handler"]),
                    Invoke("_redo", fr.at, fr.value,
                           IF path = <<>> THEN <<>> ELSE <<path[1]>>, FALSE))
            ELSE Go(Pop(m), m.ctl)
       ELSE Go(Pop(m), m.ctl)

\* SaveStateTree.__init__ that returns without looking at self.resume
After_init_noRetry(m) == Go(Pop(m), Ret(NIL))

\* SaveStateTree.__init__ after the try statement, "if self.resume: ..."
After_init(m) ==
    IF m.resume # <<>>
    THEN Go(SetTop([m EXCEPT !.resume = Front(m.resume)],
                   [Top(m) EXCEPT !.phase = "resume"]),
            Invoke("SaveStateTree.insert", <<>>, Last(m.resume), <<>>, FALSE))
    ELSE Go(Pop(m), Ret(NIL))

\* SaveStateTree.__init__: a return or an exception reaches its frame
Resume_init(m) ==
    IF Top(m).phase = "try"
    THEN IF m.ctl.k = "ret" THEN After_init([m EXCEPT !.root = m.ctl.v])
         ELSE IF m.ctl.e = "Exit"
         THEN Go(SetTop(m, [Top(m) EXCEPT !.phase = "exit"]), Ctl("exit_open"))
         ELSE IF m.ctl.e = "_Cancel" THEN After_init(m)
         ELSE Go(Pop(m), m.ctl)
    ELSE IF m.ctl.k = "ret" THEN Go(Pop(m), Ret(NIL)) ELSE Go(Pop(m), m.ctl)

\* the machine waits: for the oracle, for the storage, or for its caller
Stable(m) == \/ m.ctl.k \notin {"invoke", "ret", "raise"}
             \/ m.ctl.k \in {"ret", "raise"} /\ m.stack = <<>>

\* one step of the interpreter
Step(m) ==
    IF m.ctl.k = "invoke"
    THEN CASE m.ctl.f = "SaveStateTree.insert" -> Call_SaveStateTree_insert(m)
           [] m.ctl.f = "UndoTree.insert" -> Call_UndoTree_insert(m)
           [] m.ctl.f = "AVLTree.insert" -> Call_AVLTree_insert(m)
           [] m.ctl.f = "_insert" -> Call_insert(m)
           [] m.ctl.f = "_redo" -> Call_redo(m)
    ELSE CASE Top(m).f = "SaveStateTree.insert" -> Resume_SaveStateTree_insert(m)
           [] Top(m).f = "UndoTree.insert" -> Resume_UndoTree_insert(m)
           [] Top(m).f = "AVLTree.insert" -> Resume_AVLTree_insert(m)
           [] Top(m).f = "_insert" -> Resume_insert(m)
           [] Top(m).f = "_redo" -> Resume_redo(m)
           [] Top(m).f = "SaveStateTree.__init__" -> Resume_init(m)

RECURSIVE Run(_)
\* run until the machine waits
Run(m) == IF Stable(m) THEN m ELSE Run(Step(m))

\* what the caller of the outermost frame sees
Settle(m) ==
    IF m.ctl.k = "ret" THEN Go(m, Ctl("idle"))
    ELSE IF m.ctl.k = "raise"
    THEN IF m.ctl.e = "Exit" THEN Go(m, Ctl("exited"))
         ELSE Go(m, [Ctl("error") EXCEPT !.e = m.ctl.e])
    ELSE m

RunToWait(m) == Settle(Run(m))

\* UndoTree.__init__
EmptyTree == [root |-> NIL, values |-> <<>>, nodes |-> <<>>, roots |-> <<>>,
              resume |-> <<>>, stack |-> <<>>, ctl |-> Ctl("idle")]

\* a dump that leaves out the snapshots in self.roots
Pickle_noRoots(m) == [kind |-> "state", root |-> m.root, values |-> m.values,
                      nodes |-> m.nodes, roots |-> <<>>, resume |-> m.resume]

\* what pickle.dump(self, f) writes: the object's attributes
Pickle(m) == [kind |-> "state", root |-> m.root, values |-> m.values,
              nodes |-> m.nodes, roots |-> m.roots, resume |-> m.resume]

Absent == [kind |-> "absent"]

\* the file after open(filename, 'wb') and before pickle.dump has finished
Partial == [kind |-> "partial"]

\* os.remove(filename): the file afterwards and the exception raised, if any
os_remove(f) == IF f.kind = "absent" THEN [file |-> f, e |-> "FileNotFoundError"]
                ELSE [file |-> Absent, e |-> ""]

\* SaveStateTree.delete_file without "except FileNotFoundError"
delete_file_raises(f) == os_remove(f)

\* SaveStateTree.delete_file: try: os.remove(...) except FileNotFoundError: pass
delete_file(f) ==
    LET r == os_remove(f)
    IN IF r.e = "FileNotFoundError" THEN [r EXCEPT !.e = ""] ELSE r

\* SaveStateTree.__init__ without "except FileNotFoundError"
SaveStateTree_init_noFile(f) ==
    IF f.kind = "absent"
    THEN [EmptyTree EXCEPT !.ctl = [Ctl("error") EXCEPT !.e = "FileNotFoundError"]]
    ELSE IF f.kind = "partial"
    THEN [EmptyTree EXCEPT !.ctl = [Ctl("error") EXCEPT !.e = "UnpicklingError"]]
    ELSE LET m == [EmptyTree EXCEPT !.root = f.root, !.values = f.values,
                                   !.nodes = f.nodes, !.roots = f.roots,
                                   !.resume = f.resume]
             fr == Frame("SaveStateTree.__init__", "try", <<>>, 0, <<>>, FALSE)
         IN RunToWait(Go(Push(m, fr),
                         Invoke("_redo", <<>>, Last(m.values), Last(m.nodes), TRUE)))

\* SaveStateTree.__init__(filename) on the storage content f
SaveStateTree_init(f) ==
    IF f.kind = "absent" THEN EmptyTree
    ELSE IF f.kind = "partial"
    THEN [EmptyTree EXCEPT !.ctl = [Ctl("error") EXCEPT !.e = "UnpicklingError"]]
    ELSE LET m == [EmptyTree EXCEPT !.root = f.root, !.values = f.values,
                                   !.nodes = f.nodes, !.roots = f.roots,
                                   !.resume = f.resume]
             fr == Frame("SaveStateTree.__init__", "try", <<>>, 0, <<>>, FALSE)
         IN IF m.values = <<>> \/ m.nodes = <<>>
            THEN [m EXCEPT !.ctl = [Ctl("error") EXCEPT !.e = "IndexError"]]
            ELSE RunToWait(Go(Push(m, fr),
                              Invoke("_redo", <<>>, Last(m.values), Last(m.nodes), TRUE)))

\* the pair (item, node value) of the comparison the machine waits on
CallPair(m) == <<Top(m).value, Sub(m.root, Top(m).at).value>>

\* ------------------------------------------------------------- variables
\* tree, comparisons, lastop: a MyTree under test (comparison_test.py).
\* root .. ctl: the SaveStateTree object and the call stack of its thread.
\* file, image_list, idx, sorted_list: the storage and image_sort's locals.
\* undos .. shadow record the history of a behaviour: the UNDO and EXIT
\* answers so far, whether the session has asked nothing since it opened,
\* the comparison, attributes and outermost call at the last EXIT, those of
\* the EXIT whose state the file holds, whether a write failed, and the run that receives
\* the same answers but is never interrupted.
\* app: the Kivy app of image_sort and the handshake between its thread and
\* the thread of _sort (CompareImage.response, CompareImage.event, sort_event).
\* last_undo: the comparison and attributes at the UNDO that the last answer
\* was, how many UNDOs in a row it ends, and whether there was a rollback
\* (UNDO at the root with a snapshot) or a restart (with none) so far.
\* fj: one call of merge_insertion_sort (its argument, its locals, its result).
VARIABLES tree, comparisons, lastop,
          root, values, nodes, roots, resume, stack, ctl,
          file, image_list, idx, sorted_list,
          undos, exits, opened, exit_state, saved, failed, shadow, last_undo,
          app, fj

tvars == <<tree, comparisons, lastop>>
mvars == <<root, values, nodes, roots, resume, stack, ctl>>
dvars == <<file, image_list, idx, sorted_list>>
hvars == <<undos, exits, opened, exit_state, saved, failed, shadow, last_undo>>
vars == <<tvars, mvars, dvars, hvars, app, fj>>

\* the SaveStateTree object and its call stack, as a machine
Cur == [root |-> root, values |-> values, nodes |-> nodes, roots |-> roots,
        resume |-> resume, stack |-> stack, ctl |-> ctl]

SetM(m) == /\ root' = m.root
           /\ values' = m.values
           /\ nodes' = m.nodes
           /\ roots' = m.roots
           /\ resume' = m.resume
           /\ stack' = m.stack
           /\ ctl' = m.ctl

RECURSIVE Drive(_, _, _)
\* the loop of image_sort._sort from item i on, run until the oracle is
\* asked or the list is exhausted (tree.delete_file(); tree.to_list())
Drive(m, list, i) ==
    IF m.ctl.k # "idle" THEN [m |-> m, idx |-> i]
    ELSE IF i > Len(list) THEN [m |-> Go(m, Ctl("done")), idx |-> i]
    ELSE IF list[i] \in SeqSet(m.values) THEN Drive(m, list, i + 1)
    ELSE Drive(RunToWait(Go(m, Invoke("SaveStateTree.insert", <<>>, list[i], <<>>, FALSE))),
               list, i + 1)

\* the answer that agrees with the fixed total order (the integers)
Truth(m) == IF CallPair(m)[1] < CallPair(m)[2] THEN "LESS" ELSE "GREATER"

\* no Kivy app: the oracle answers the calls of compare directly
AppOff == [state |-> "off", response |-> "None", event |-> FALSE,
           sort_event |-> FALSE, sort |-> "off", ui |-> "off", clicks |-> 0,
           early |-> FALSE, returned |-> FALSE, result |-> <<>>]

\* the last answer was not UNDO; no rollback and no restart so far
NoUndo == [kind |-> "none", rollbacks |-> FALSE, restarts |-> FALSE]

\* no call of merge_insertion_sort
FJOff == [pc |-> "off", list_ |-> <<>>, pairs |-> <<>>, odd_one_out |-> <<>>,
          sorted_pairs |-> <<>>, result |-> <<>>]

\* ------------------------------------------------------ SpecTree: MyTree
TreeInit == /\ tree = NIL
            /\ comparisons = 0
            /\ lastop = "none"
            /\ root = NIL /\ values = <<>> /\ nodes = <<>> /\ roots = <<>>
            /\ resume = <<>> /\ stack = <<>> /\ ctl = Ctl("closed")
            /\ file = Absent /\ image_list = <<>> /\ idx = 1 /\ sorted_list = <<>>
            /\ undos = 0 /\ last_undo = NoUndo /\ exits = 0 /\ opened = FALSE
            /\ exit_state = [kind |-> "none"]
            /\ saved = [kind |-> "none"]
            /\ failed = FALSE
            /\ shadow = [kind |-> "none"]
            /\ app = AppOff
            /\ fj = FJOff

\* MyTree.insert(v), counted as MyTreeTest counts it
TreeInsert(v) ==
    /\ v \notin SeqSet(to_list(tree, FALSE))
    /\ comparisons' = comparisons_of(tree, v)
    /\ tree' = insert(tree, v)
    /\ lastop' = "insert"
    /\ UNCHANGED <<fj, app, mvars, dvars, hvars>>

\* MyTree.delete(v)
TreeDelete(v) ==
    /\ v \in SeqSet(to_list(tree, FALSE))
    /\ tree' = delete(tree, v)
    /\ lastop' = "delete"
    /\ UNCHANGED <<fj, comparisons, app, mvars, dvars, hvars>>

TreeNext == \/ \E v \in 1..MaxVal : TreeInsert(v)
            \/ \E v \in 1..MaxVal : TreeDelete(v)

SpecTree == TreeInit /\ [][TreeNext]_vars

\* --------------------------------- SpecEqual: MyTree with equal values
\* MyTree.insert(v) of a value that may equal values already in the tree
TreeInsertEqual(v) ==
    /\ Size(tree) < EqSize
    /\ tree' = insert(tree, v)
    /\ comparisons' = comparisons_of(tree, v)
    /\ lastop' = "insert"
    /\ UNCHANGED <<fj, app, mvars, dvars, hvars>>

NextEqual == \E v \in 1..EqVal : TreeInsertEqual(v)

SpecEqual == TreeInit /\ [][NextEqual]_vars

\* ------------------------------------- Spec: a sorting session with undo
Init == /\ tree = NIL /\ comparisons = 0 /\ lastop = "none"
        /\ image_list \in UNION {Perms(1..n) : n \in 0..MaxItems}
        /\ root = NIL /\ values = <<>> /\ nodes = <<>> /\ roots = <<>>
        /\ resume = <<>> /\ stack = <<>> /\ ctl = Ctl("closed")
        /\ file = Absent
        /\ idx = 1
        /\ sorted_list = <<>>
        /\ undos = 0 /\ last_undo = NoUndo /\ exits = 0
        /\ opened = FALSE
        /\ exit_state = [kind |-> "none"]
        /\ saved = [kind |-> "none"]
        /\ failed = FALSE
        /\ shadow = Drive(EmptyTree, image_list, 1)
        /\ app = AppOff
        /\ fj = FJOff

\* image_sort: "if not image_list: return image_list"
ReturnEmpty ==
    /\ ctl.k = "closed"
    /\ image_list = <<>>
    /\ ctl' = Ctl("done")
    /\ sorted_list' = image_list
    /\ UNCHANGED <<fj, app, tvars, root, values, nodes, roots, resume, stack, file,
                   image_list, idx, hvars>>

\* _sort: tree = SaveStateTree(filename), in a fresh run of image_sort
Open ==
    /\ ctl.k \in {"closed", "exited", "error"}
    /\ image_list # <<>>
    /\ SetM(SaveStateTree_init(file))
    /\ idx' = 1
    /\ opened' = TRUE
    /\ UNCHANGED <<fj, app, tvars, file, image_list, sorted_list, undos, last_undo, exits,
                   exit_state, saved, failed, shadow>>

\* _sort that inserts the next image without looking at tree.values
Submit_noSkip ==
    /\ ctl.k = "idle"
    /\ idx <= Len(image_list)
    /\ SetM(RunToWait(Go(Cur, Invoke("SaveStateTree.insert", <<>>, image_list[idx],
                                     <<>>, FALSE))))
    /\ idx' = idx + 1
    /\ UNCHANGED <<fj, app, tvars, file, image_list, sorted_list, hvars>>

\* _sort: the next image is not in tree.values: tree.insert(CompareImage(image))
Submit ==
    /\ ctl.k = "idle"
    /\ idx <= Len(image_list)
    /\ image_list[idx] \notin SeqSet(values)
    /\ SetM(RunToWait(Go(Cur, Invoke("SaveStateTree.insert", <<>>, image_list[idx],
                                     <<>>, FALSE))))
    /\ idx' = idx + 1
    /\ UNCHANGED <<fj, app, tvars, file, image_list, sorted_list, hvars>>

\* _sort: the next image is already in tree.values
Skip ==
    /\ ctl.k = "idle"
    /\ idx <= Len(image_list)
    /\ image_list[idx] \in SeqSet(values)
    /\ idx' = idx + 1
    /\ UNCHANGED <<fj, app, tvars, mvars, file, image_list, sorted_list, hvars>>

\* _sort: tree.delete_file(); sorted_list.extend(tree.to_list())
Finish ==
    /\ ctl.k = "idle"
    /\ idx > Len(image_list)
    /\ file' = delete_file(file).file
    /\ IF delete_file(file).e = ""
       THEN sorted_list' = to_list(root, FALSE) /\ ctl' = Ctl("done")
       ELSE sorted_list' = sorted_list
            /\ ctl' = [Ctl("error") EXCEPT !.e = delete_file(file).e]
    /\ saved' = [kind |-> "deleted", was |-> file.kind, calls |-> 1]
    /\ UNCHANGED <<fj, app, tvars, root, values, nodes, roots, resume, stack,
                   image_list, idx, undos, last_undo, exits, opened, exit_state, failed,
                   shadow>>

\* the run that is never interrupted receives the same answer
ShadowAnswer(a) ==
    IF shadow.m.ctl.k = "ask"
    THEN LET r == RunToWait(Answer_insert(shadow.m, a))
         IN Drive(r, image_list, shadow.idx)
    ELSE shadow

\* the oracle answers by the fixed total order (CompareImage.__lt__
\* returns True or False).  Every script of such answers is the script of
\* a total order on the items, so the orders of image_list cover them all.
AnswerOrder(a) ==
    /\ ctl.k = "ask"
    /\ a = Truth(Cur)
    /\ SetM(RunToWait(Answer_insert(Cur, a)))
    /\ shadow' = ShadowAnswer(a)
    /\ opened' = FALSE
    /\ last_undo' = [NoUndo EXCEPT !.rollbacks = last_undo.rollbacks,
                             !.restarts = last_undo.restarts]
    /\ UNCHANGED <<fj, app, tvars, dvars, undos, exits, exit_state, saved, failed>>

AnswerLess == AnswerOrder("LESS")

AnswerGreater == AnswerOrder("GREATER")

\* the oracle raises UndoClicked
AnswerUndo ==
    /\ ctl.k = "ask"
    /\ undos < MaxUndo
    /\ undos' = undos + 1
    /\ last_undo' = [kind |-> "undo", at |-> Top(Cur).at, pair |-> CallPair(Cur),
                     state |-> Pickle(Cur), path |-> Last(nodes),
                     streak |-> IF last_undo.kind = "undo"
                                THEN last_undo.streak + 1 ELSE 1,
                     rollbacks |-> last_undo.rollbacks
                                   \/ (Top(Cur).at = <<>> /\ roots # <<>>),
                     restarts |-> last_undo.restarts
                                  \/ (Top(Cur).at = <<>> /\ roots = <<>>)]
    /\ SetM(RunToWait(Answer_insert(Cur, "UNDO")))
    /\ shadow' = ShadowAnswer("UNDO")
    /\ opened' = FALSE
    /\ UNCHANGED <<fj, app, tvars, dvars, exits, exit_state, saved, failed>>

\* the oracle raises Exit
AnswerExit ==
    /\ ctl.k = "ask"
    /\ exits < MaxExit
    /\ exits' = exits + 1
    /\ exit_state' = [kind |-> "exit", pair |-> CallPair(Cur), state |-> Pickle(Cur),
                      during |-> stack[1].f]
    /\ SetM(RunToWait(Answer_insert(Cur, "EXIT")))
    /\ opened' = FALSE
    /\ last_undo' = [NoUndo EXCEPT !.rollbacks = last_undo.rollbacks,
                             !.restarts = last_undo.restarts]
    /\ UNCHANGED <<fj, app, tvars, dvars, undos, saved, failed, shadow>>

\* SaveStateTree.exit: open(self.filename, 'wb') truncates the file
ExitOpen ==
    /\ ctl.k = "exit_open"
    /\ file' = Partial
    /\ ctl' = Ctl("exit_dump")
    /\ saved' = [kind |-> "none"]
    /\ UNCHANGED <<fj, app, tvars, root, values, nodes, roots, resume, stack,
                   image_list, idx, sorted_list, undos, last_undo, exits, opened,
                   exit_state, failed, shadow>>

\* SaveStateTree.exit: pickle.dump(self, f) completes; raise self.Exit
ExitDump ==
    /\ ctl.k = "exit_dump"
    /\ file' = Pickle(Cur)
    /\ SetM(RunToWait(Go(Pop(Cur), Raise("Exit"))))
    /\ saved' = exit_state
    /\ UNCHANGED <<fj, app, tvars, image_list, idx, sorted_list, undos, last_undo, exits, opened,
                   exit_state, failed, shadow>>

\* SaveStateTree.exit: open or pickle.dump fails (OSError), or the process
\* is stopped, with the file as it is at that moment
ExitFail ==
    /\ ctl.k \in {"exit_open", "exit_dump"}
    /\ SetM(RunToWait(Go(Pop(Cur), Raise("OSError"))))
    /\ failed' = TRUE
    /\ UNCHANGED <<fj, app, tvars, dvars, undos, last_undo, exits, opened, exit_state, saved, shadow>>

Next == \/ ReturnEmpty
        \/ Open
        \/ Submit
        \/ Skip
        \/ Finish
        \/ AnswerLess
        \/ AnswerGreater
        \/ AnswerUndo
        \/ AnswerExit
        \/ ExitOpen
        \/ ExitDump
        \/ ExitFail

Spec == Init /\ [][Next]_vars

\* ------------------------- SpecUndo: longer lists, sorted in one session
InitUndo == /\ tree = NIL /\ comparisons = 0 /\ lastop = "none"
            /\ image_list \in UNION {Perms(1..n) : n \in 1..UndoItems}
            /\ root = NIL /\ values = <<>> /\ nodes = <<>> /\ roots = <<>>
            /\ resume = <<>> /\ stack = <<>> /\ ctl = Ctl("closed")
            /\ file = Absent
            /\ idx = 1
            /\ sorted_list = <<>>
            /\ undos = 0 /\ last_undo = NoUndo /\ exits = 0
            /\ opened = FALSE
            /\ exit_state = [kind |-> "none"]
            /\ saved = [kind |-> "none"]
            /\ failed = FALSE
            /\ shadow = Drive(EmptyTree, image_list, 1)
            /\ app = AppOff
            /\ fj = FJOff

\* the window is never closed: no EXIT, and so no second session
NextUndo == \/ Open
            \/ Submit
            \/ Finish
            \/ AnswerLess
            \/ AnswerGreater
            \/ AnswerUndo

SpecUndo == InitUndo /\ [][NextUndo]_vars

\* ------- SpecReplay: lists of ReplayItems items, sorted over several sessions
InitReplay == /\ tree = NIL /\ comparisons = 0 /\ lastop = "none"
              /\ image_list \in Perms(1..ReplayItems)
              /\ root = NIL /\ values = <<>> /\ nodes = <<>> /\ roots = <<>>
              /\ resume = <<>> /\ stack = <<>> /\ ctl = Ctl("closed")
              /\ file = Absent
              /\ idx = 1
              /\ sorted_list = <<>>
              /\ undos = 0 /\ last_undo = NoUndo /\ exits = 0
              /\ opened = FALSE
              /\ exit_state = [kind |-> "none"]
              /\ saved = [kind |-> "none"]
              /\ failed = FALSE
              /\ shadow = Drive(EmptyTree, image_list, 1)
              /\ app = AppOff
              /\ fj = FJOff

\* the storage never fails while the state is written
NextReplay == \/ Open
              \/ Submit
              \/ Skip
              \/ Finish
              \/ AnswerLess
              \/ AnswerGreater
              \/ AnswerUndo
              \/ AnswerExit
              \/ ExitOpen
              \/ ExitDump

SpecReplay == InitReplay /\ [][NextReplay]_vars

\* ------------- SpecFile: the caller deletes the file again and sorts again
\* tree.delete_file() called once more after _sort has called it
DeleteFileAgain ==
    /\ ctl.k = "done"
    /\ saved.kind = "deleted"
    /\ saved.calls < MaxDelete
    /\ file' = delete_file(file).file
    /\ ctl' = IF delete_file(file).e = "" THEN ctl
              ELSE [Ctl("error") EXCEPT !.e = delete_file(file).e]
    /\ saved' = [saved EXCEPT !.calls = @ + 1]
    /\ UNCHANGED <<fj, app, tvars, root, values, nodes, roots, resume, stack,
                   image_list, idx, sorted_list, undos, last_undo, exits, opened,
                   exit_state, failed, shadow>>

\* image_sort called again with the same list and filename after it returned
\* the sorted list: tree = SaveStateTree(filename)
OpenAfter ==
    /\ ctl.k = "done"
    /\ image_list # <<>>
    /\ SetM(SaveStateTree_init(file))
    /\ idx' = 1
    /\ opened' = TRUE
    /\ sorted_list' = <<>>
    /\ UNCHANGED <<fj, app, tvars, file, image_list, undos, last_undo, exits, exit_state, saved,
                   failed, shadow>>

NextFile == \/ Next
            \/ DeleteFileAgain
            \/ OpenAfter

SpecFile == Init /\ [][NextFile]_vars

\* ------------------- SpecApp: image_sort, the Kivy app and the sort thread
(***************************************************************************)
(* image_sort starts _sort in a thread of its own and runs the Kivy app in *)
(* the calling thread.  The threads share CompareImage.response,           *)
(* CompareImage.event and sort_event; each statement that reads or writes  *)
(* one of them is a step.  app.sort is where the thread of _sort is:       *)
(* before event.clear() ("start"), in the first event.wait()               *)
(* ("wait_layout"), in the tree's code ("run"), in compare before          *)
(* "response = None" ("cmp_reset"), before event.clear() ("cmp_clear"),    *)
(* in event.wait() ("cmp_wait"), before the tests of response              *)
(* ("cmp_read"), or over ("ended").  app.ui is where the Kivy thread is:   *)
(* in its event loop ("idle"), or between the two statements of a          *)
(* selection ("set") or of on_stop ("stop_set").  The calls into Kivy      *)
(* (get_running_app, the image properties) are taken to succeed.           *)
(***************************************************************************)
InitApp == /\ tree = NIL /\ comparisons = 0 /\ lastop = "none"
           /\ image_list \in UNION {Perms(1..n) : n \in 1..AppItems}
           /\ root = NIL /\ values = <<>> /\ nodes = <<>> /\ roots = <<>>
           /\ resume = <<>> /\ stack = <<>> /\ ctl = Ctl("closed")
           /\ file = Absent
           /\ idx = 1
           /\ sorted_list = <<>>
           /\ undos = 0 /\ last_undo = NoUndo /\ exits = 0
           /\ opened = FALSE
           /\ exit_state = [kind |-> "none"]
           /\ saved = [kind |-> "none"]
           /\ failed = FALSE
           /\ shadow = [kind |-> "none"]
           /\ app = [state |-> "starting", response |-> "None", event |-> FALSE,
                     sort_event |-> FALSE, sort |-> "start", ui |-> "idle",
                     clicks |-> 0, early |-> FALSE, returned |-> FALSE,
                     result |-> <<>>]
           /\ fj = FJOff

\* where the thread of _sort is once the tree's code has run to m
SortAt(m) == IF m.ctl.k = "ask" THEN "cmp_reset"
             ELSE IF m.ctl.k \in {"exited", "error", "done"} THEN "ended"
             ELSE "run"

\* _sort: CompareImage.event.clear()
SortClear ==
    /\ app.sort = "start"
    /\ app' = [app EXCEPT !.event = FALSE, !.sort = "wait_layout"]
    /\ UNCHANGED <<fj, tvars, mvars, dvars, hvars>>

\* _sort: CompareImage.event.wait() returns
SortWait ==
    /\ app.sort = "wait_layout"
    /\ app.event
    /\ app' = [app EXCEPT !.sort = "run"]
    /\ UNCHANGED <<fj, tvars, mvars, dvars, hvars>>

\* _sort: tree = SaveStateTree(filename)
SortOpen ==
    /\ app.sort = "run"
    /\ ctl.k = "closed"
    /\ SetM(SaveStateTree_init(file))
    /\ idx' = 1
    /\ app' = [app EXCEPT !.sort = SortAt(SaveStateTree_init(file))]
    /\ UNCHANGED <<fj, tvars, file, image_list, sorted_list, hvars>>

\* _sort: tree.insert(CompareImage(image)), up to compare or to its return
SortSubmit ==
    /\ app.sort = "run"
    /\ ctl.k = "idle"
    /\ idx <= Len(image_list)
    /\ image_list[idx] \notin SeqSet(values)
    /\ LET m == RunToWait(Go(Cur, Invoke("SaveStateTree.insert", <<>>,
                                         image_list[idx], <<>>, FALSE)))
       IN SetM(m) /\ app' = [app EXCEPT !.sort = SortAt(m)]
    /\ idx' = idx + 1
    /\ UNCHANGED <<fj, tvars, file, image_list, sorted_list, hvars>>

\* _sort: tree.delete_file(); sorted_list.extend(tree.to_list());
\* sort_event.set(); app.stop(), which runs on_stop if the app still runs
SortFinish ==
    /\ app.sort = "run"
    /\ ctl.k = "idle"
    /\ idx > Len(image_list)
    /\ file' = delete_file(file).file
    /\ sorted_list' = to_list(root, FALSE)
    /\ ctl' = Ctl("done")
    /\ app' = IF app.state = "running"
              THEN [app EXCEPT !.sort = "ended", !.sort_event = TRUE,
                               !.response = "EXIT", !.event = TRUE,
                               !.state = "stopped", !.ui = "off"]
              ELSE [app EXCEPT !.sort = "ended", !.sort_event = TRUE]
    /\ UNCHANGED <<fj, tvars, root, values, nodes, roots, resume, stack,
                   image_list, idx, hvars>>

\* compare: layout.left_image, layout.right_image; CompareImage.response = None
CmpReset ==
    /\ app.sort = "cmp_reset"
    /\ app' = [app EXCEPT !.response = "None", !.sort = "cmp_clear"]
    /\ UNCHANGED <<fj, tvars, mvars, dvars, hvars>>

\* compare: CompareImage.event.clear()
CmpClear ==
    /\ app.sort = "cmp_clear"
    /\ app' = [app EXCEPT !.event = FALSE, !.sort = "cmp_wait"]
    /\ UNCHANGED <<fj, tvars, mvars, dvars, hvars>>

\* compare: CompareImage.event.wait() returns
CmpWait ==
    /\ app.sort = "cmp_wait"
    /\ app.event
    /\ app' = [app EXCEPT !.sort = "cmp_read"]
    /\ UNCHANGED <<fj, tvars, mvars, dvars, hvars>>

\* compare: the tests of CompareImage.response; __lt__ is compare(...) == -1
CmpRead ==
    /\ app.sort = "cmp_read"
    /\ IF app.response = "None"
       THEN /\ app' = [app EXCEPT !.sort = "cmp_clear"]
            /\ UNCHANGED mvars
       ELSE LET a == CASE app.response = "UNDO" -> "UNDO"
                       [] app.response = "EXIT" -> "EXIT"
                       [] app.response = "-1" -> "LESS"
                       [] OTHER -> "GREATER"
                m == RunToWait(Answer_insert(Cur, a))
            IN SetM(m) /\ app' = [app EXCEPT !.sort = SortAt(m)]
    /\ UNCHANGED <<fj, tvars, dvars, hvars>>

\* SaveStateTree.exit in the thread of _sort: open(self.filename, 'wb')
SortExitOpen ==
    /\ app.sort = "run"
    /\ ctl.k = "exit_open"
    /\ file' = Partial
    /\ ctl' = Ctl("exit_dump")
    /\ UNCHANGED <<fj, app, tvars, root, values, nodes, roots, resume, stack,
                   image_list, idx, sorted_list, hvars>>

\* SaveStateTree.exit in the thread of _sort: pickle.dump; raise self.Exit;
\* _sort: except SaveStateTree.Exit: return
SortExitDump ==
    /\ app.sort = "run"
    /\ ctl.k = "exit_dump"
    /\ file' = Pickle(Cur)
    /\ LET m == RunToWait(Go(Pop(Cur), Raise("Exit")))
       IN SetM(m) /\ app' = [app EXCEPT !.sort = SortAt(m)]
    /\ UNCHANGED <<fj, tvars, image_list, idx, sorted_list, hvars>>

\* app.run(): SortApp.build, SelectionLayout.__init__: CompareImage.event.set()
Build ==
    /\ app.state = "starting"
    /\ app' = [app EXCEPT !.state = "running", !.event = TRUE]
    /\ UNCHANGED <<fj, tvars, mvars, dvars, hvars>>

\* select_left, select_right, undo: CompareImage.response = r
Select(r) ==
    /\ app.state = "running"
    /\ app.ui = "idle"
    /\ app.clicks < MaxClick
    /\ app' = [app EXCEPT !.response = r, !.ui = "set", !.clicks = @ + 1]
    /\ UNCHANGED <<fj, tvars, mvars, dvars, hvars>>

SelectLeft == Select("1")

SelectRight == Select("-1")

SelectUndo == Select("UNDO")

\* select_left, select_right, undo: CompareImage.event.set()
SelectEvent ==
    /\ app.ui = "set"
    /\ app' = [app EXCEPT !.event = TRUE, !.ui = "idle"]
    /\ UNCHANGED <<fj, tvars, mvars, dvars, hvars>>

\* the user closes the window: on_stop, CompareImage.response = EXIT.
\* early: the thread of _sort is inside a comparison at that moment
StopSet ==
    /\ app.state = "running"
    /\ app.ui = "idle"
    /\ app' = [app EXCEPT !.response = "EXIT", !.ui = "stop_set",
                          !.early = (ctl.k = "ask")]
    /\ UNCHANGED <<fj, tvars, mvars, dvars, hvars>>

\* on_stop: CompareImage.event.set(); the bound lambda: sort_event.set();
\* app.run() returns
StopEvent ==
    /\ app.ui = "stop_set"
    /\ app' = [app EXCEPT !.event = TRUE, !.sort_event = TRUE,
                          !.state = "stopped", !.ui = "off"]
    /\ UNCHANGED <<fj, tvars, mvars, dvars, hvars>>

\* image_sort: sort_event.wait(); return sorted_list
Return ==
    /\ app.state = "stopped"
    /\ app.sort_event
    /\ ~app.returned
    /\ app' = [app EXCEPT !.returned = TRUE, !.result = sorted_list]
    /\ UNCHANGED <<fj, tvars, mvars, dvars, hvars>>

NextApp == \/ SortClear
           \/ SortWait
           \/ SortOpen
           \/ SortSubmit
           \/ SortFinish
           \/ CmpReset
           \/ CmpClear
           \/ CmpWait
           \/ CmpRead
           \/ SortExitOpen
           \/ SortExitDump
           \/ Build
           \/ SelectLeft
           \/ SelectRight
           \/ SelectUndo
           \/ SelectEvent
           \/ StopSet
           \/ StopEvent
           \/ Return

SpecApp == InitApp /\ [][NextApp]_vars

\* ------------------------------------- SpecFJ: merge_insertion_sort
(* The items of the outermost call are integers and key is None.  The     *)
(* call at recursion depth d sorts tuples nested d deep with key =        *)
(* get_last, which follows the last component down to an integer; d       *)
(* stands for that nesting.  A pair is <<lesser, greater>>.  odd_one_out   *)
(* is <<>> for None and <<x>> for the item x.  Indices are the code's      *)
(* zero-based ones; list_[i] of the code is list_[i + 1] here.             *)

MaxLen == 5
MaxKey == 3

RECURSIVE jacobsthal(_)
\* the n-th value that jacobsthal_generator yields (n from 0)
jacobsthal(n) == IF n = 0 THEN 0
                 ELSE IF n = 1 THEN 1
                 ELSE jacobsthal(n - 1) + 2 * jacobsthal(n - 2)

\* list(range(a, b, -1))
range_down(a, b) == [i \in 1..(IF a > b THEN a - b ELSE 0) |-> a - i + 1]

RECURSIVE insertion_order(_)
\* what _insertion_order yields while it consumes the first n + 1 values of
\* jacobsthal_generator
insertion_order(n) ==
    IF n = 0 THEN range_down(jacobsthal(0) - 1, -1)
    ELSE insertion_order(n - 1)
         \o range_down(jacobsthal(n) - 1, jacobsthal(n - 1) - 1)

RECURSIVE get_last(_, _)
\* key(item) of the call at depth d
get_last(item, d) == IF d = 0 THEN item ELSE get_last(item[2], d - 1)

RECURSIVE binary_search(_, _, _, _, _)
binary_search(list_, item, start, end, d) ==
    IF list_ = <<>> \/ end <= start THEN start
    ELSE IF end - start <= 1
    THEN IF get_last(item, d) < get_last(list_[start + 1], d)
         THEN start ELSE start + 1
    ELSE LET mid == (start + end) \div 2
             this_item == get_last(item, d)
             that_item == get_last(list_[mid + 1], d)
         IN IF that_item = this_item THEN mid - 1
            ELSE IF that_item < this_item
            THEN binary_search(list_, item, mid + 1, end, d)
            ELSE binary_search(list_, item, start, mid, d)

\* list_[:n]
Take(list_, n) == SubSeq(list_, 1, IF n < Len(list_) THEN n ELSE Len(list_))
\* list_[n:]
Drop(list_, n) == SubSeq(list_, n + 1, Len(list_))

\* _pairs: the pairs, each in ascending order of its keys, and the unpaired
\* last item of a list of odd length
pairs_of(list_, d) ==
    [pairs |-> [i \in 1..(Len(list_) \div 2) |->
                  LET item1 == list_[2 * i - 1]
                      item2 == list_[2 * i]
                  IN IF get_last(item1, d) > get_last(item2, d)
                     THEN <<item2, item1>> ELSE <<item1, item2>>],
     odd_one_out |-> IF Len(list_) % 2 = 1 THEN <<list_[Len(list_)]>> ELSE <<>>]

RECURSIVE insertion_loop(_, _, _, _, _)
\* the loop of _binary_insertion over the indices that order still holds
insertion_loop(sorted_list_, low_values, num_inserted, order, d) ==
    IF order = <<>> \/ num_inserted >= Len(low_values) THEN sorted_list_
    ELSE LET next_index == Head(order)
         IN IF next_index < Len(low_values)
            THEN LET insert_item == low_values[next_index + 1]
                     before_index == next_index + num_inserted
                     insert_index ==
                         binary_search(Take(sorted_list_, before_index),
                                       insert_item, 0, before_index, d)
                 IN insertion_loop(Take(sorted_list_, insert_index)
                                     \o <<insert_item>>
                                     \o Drop(sorted_list_, insert_index),
                                   low_values, num_inserted + 1,
                                   Tail(order), d)
            ELSE insertion_loop(sorted_list_, low_values, num_inserted,
                                Tail(order), d)

\* _binary_insertion: the loop ends once every low value is inserted, which
\* happens before the generator has passed the index Len(low_values)
binary_insertion(sorted_pairs, odd_one_out, d) ==
    LET sorted_list_ == [i \in 1..Len(sorted_pairs) |-> sorted_pairs[i][2]]
        low_values == [i \in 1..Len(sorted_pairs) |-> sorted_pairs[i][1]]
                      \o odd_one_out
    IN insertion_loop(sorted_list_, low_values, 0,
                      insertion_order(Len(low_values) + 1), d)

RECURSIVE merge_insertion_sort(_, _)
merge_insertion_sort(list_, d) ==
    IF Len(list_) <= 1 THEN list_
    ELSE LET p == pairs_of(list_, d)
             sorted_pairs == merge_insertion_sort(p.pairs, d + 1)
         IN binary_insertion(sorted_pairs, p.odd_one_out, d)

\* every list of at most MaxLen integers of 1..MaxKey is an argument
InitFJ == /\ tree = NIL
          /\ comparisons = 0
          /\ lastop = "none"
          /\ root = NIL /\ values = <<>> /\ nodes = <<>> /\ roots = <<>>
          /\ resume = <<>> /\ stack = <<>> /\ ctl = Ctl("closed")
          /\ file = Absent /\ image_list = <<>> /\ idx = 1 /\ sorted_list = <<>>
          /\ undos = 0 /\ last_undo = NoUndo /\ exits = 0 /\ opened = FALSE
          /\ exit_state = [kind |-> "none"]
          /\ saved = [kind |-> "none"]
          /\ failed = FALSE
          /\ shadow = [kind |-> "none"]
          /\ app = AppOff
          /\ \E n \in 0..MaxLen : \E l \in [1..n -> 1..MaxKey] :
                 fj = [FJOff EXCEPT !.pc = "called", !.list_ = l]

\* if len(list_) <= 1: return list_
ReturnShort ==
    /\ fj.pc = "called" /\ Len(fj.list_) <= 1
    /\ fj' = [fj EXCEPT !.pc = "returned", !.result = fj.list_]
    /\ UNCHANGED <<tvars, mvars, dvars, hvars, app>>

\* step 1: pairs, odd_one_out = _pairs(list_, key=key)
Step1 ==
    /\ fj.pc = "called" /\ Len(fj.list_) > 1
    /\ LET p == pairs_of(fj.list_, 0)
       IN fj' = [fj EXCEPT !.pc = "paired", !.pairs = p.pairs,
                           !.odd_one_out = p.odd_one_out]
    /\ UNCHANGED <<tvars, mvars, dvars, hvars, app>>

\* step 2: sorted_pairs = merge_insertion_sort(pairs, key=get_last)
Step2 ==
    /\ fj.pc = "paired"
    /\ fj' = [fj EXCEPT !.pc = "sorted",
                        !.sorted_pairs = merge_insertion_sort(fj.pairs, 1)]
    /\ UNCHANGED <<tvars, mvars, dvars, hvars, app>>

\* step 3: return _binary_insertion(sorted_pairs, odd_one_out, key=key)
Step3 ==
    /\ fj.pc = "sorted"
    /\ fj' = [fj EXCEPT !.pc = "returned",
                        !.result = binary_insertion(fj.sorted_pairs,
                                                    fj.odd_one_out, 0)]
    /\ UNCHANGED <<tvars, mvars, dvars, hvars, app>>

NextFJ == ReturnShort \/ Step1 \/ Step2 \/ Step3

SpecFJ == InitFJ /\ [][NextFJ]_vars

\* ------------------------------------------------------------ properties
RECURSIVE InsertAll(_, _)
\* the tree after inserting the items of list, in order, with no UNDO
InsertAll(node, list) ==
    IF list = <<>> THEN node ELSE InsertAll(insert(node, Head(list)), Tail(list))

Abs(x) == IF x < 0 THEN -x ELSE x

\* C1: with an oracle that answers by one fixed total order and never
\* answers UNDO or EXIT, after each top-level insert (and before the first)
\* to_list() is exactly the items inserted so far, ascending.
C1_SortedWithoutSignals ==
    (ctl.k \in {"idle", "done"} /\ undos = 0 /\ exits = 0)
        => to_list(root, FALSE) = SortedSeq({image_list[i] : i \in 1..(idx - 1)})

C1_Witness ==
    /\ ctl.k = "idle" /\ undos = 0 /\ exits = 0
    /\ image_list = <<3, 2, 1>> /\ idx = 4

\* C2: when UNDO is answered exactly once (at any item, at any depth) and no
\* EXIT, the final sorted list equals that of the run fed the same items in
\* the same order with no UNDO.
C2_SingleUndoSameList ==
    (ctl.k = "done" /\ undos = 1 /\ exits = 0)
        => sorted_list = to_list(InsertAll(NIL, image_list), FALSE)

C2_Witness ==
    /\ ctl.k = "done" /\ undos = 1 /\ exits = 0
    /\ Len(image_list) = 3

\* C3: a session opened on a file written by exit() asks first, before any
\* other oracle call, the comparison that was answered EXIT.
C3_ResumeSameComparison ==
    (opened /\ saved.kind = "exit")
        => (ctl.k = "ask" /\ CallPair(Cur) = saved.pair)

C3_Witness ==
    /\ opened /\ saved.kind = "exit" /\ ctl.k = "ask"
    /\ CallPair(Cur)[2] # root.value
    /\ resume = <<>>

\* C4: after EXIT, save and reopen (no write having failed), every oracle
\* call is the call the uninterrupted run makes at that point of the script,
\* and the final sorted list is that of the uninterrupted run.
C4_RoundTrip ==
    (exits >= 1 /\ ~failed)
        => /\ ctl.k = "ask" => /\ shadow.m.ctl.k = "ask"
                               /\ CallPair(Cur) = CallPair(shadow.m)
           /\ ctl.k = "done" => /\ shadow.m.ctl.k = "done"
                                /\ sorted_list = to_list(shadow.m.root, FALSE)

C4_Witness ==
    /\ exits = 1 /\ ~failed /\ undos = 2 /\ ctl.k = "ask" /\ ~opened
    /\ \E i \in 1..Len(stack) : stack[i].f = "_redo" /\ stack[i].phase = "handler"

\* C5: when Exit reaches the caller, the in-flight item is not in the tree,
\* the attributes are those at the EXIT answer, and the file holds them.
C5_SavedBeforeExit ==
    ctl.k = "exited"
        => /\ file = exit_state.state
           /\ Pickle(Cur) = exit_state.state
           /\ exit_state.pair[1] \notin SeqSet(to_list(root, FALSE))
           /\ Last(values) = exit_state.pair[1]

C5_Witness ==
    /\ ctl.k = "exited" /\ exits = 2 /\ undos >= 1
    /\ exit_state.during = "SaveStateTree.__init__"
    /\ resume # <<>>

\* C6: the storage never holds a partial write.
C6_NoPartialWrite == file.kind # "partial"

\* C7: after every insert and delete on a MyTree, every node has
\* height - minHeight <= 1 (structurally and in the stored fields).
C7_StrictBalance ==
    \A n \in Subtrees(tree) :
        /\ Height(n) - MinHeight(n) <= 1
        /\ n.height - n.min_height <= 1

C7_Witness ==
    /\ lastop = "insert"
    /\ to_list(tree, TRUE) = <<4, 2, 1, 3, 6, 5, 7>>
    /\ comparisons = 3

\* C8: after every insert and delete on a MyTree, every node has
\* |height(left) - height(right)| <= 1.
C8_AVLBalance ==
    \A n \in Subtrees(tree) : Abs(Height(n.left) - Height(n.right)) <= 1

C8_Witness ==
    /\ lastop = "delete"
    /\ Size(tree) = 7
    /\ Height(tree) = 3

\* C9: a MyTree of n values has height ceil(log2(n+1)), and the insertion
\* that made it n values compared the new value with at most
\* ceil(log2(n+1)) nodes.
C9_MinimalHeight ==
    /\ Height(tree) = CeilLog2(Size(tree) + 1)
    /\ lastop = "insert" => comparisons <= CeilLog2(Size(tree) + 1)

C9_Witness ==
    /\ lastop = "insert" /\ Size(tree) = 8 /\ comparisons = 3

\* C10: no exception other than Exit and a storage failure reaches the
\* caller of insert or of the constructor.
C10_OnlyExitEscapes ==
    ctl.k = "error" => ctl.e \in {"OSError", "UnpicklingError"}

C10_Witness ==
    /\ ctl.k = "done" /\ undos = 2 /\ exits = 2 /\ ~failed
    /\ Len(image_list) = 3

\* C11: once the oracle has answered EXIT, the session makes no further
\* oracle call: the answer leads straight to the write (no pending item is
\* popped from resume, no attribute changes), and from the write the session
\* only writes again (an enclosing SaveStateTree.insert), hands Exit to the
\* caller or fails on the storage.
C11_ExitTerminal ==
    [][/\ exits' = exits + 1 =>
            /\ ctl'.k = "exit_open"
            /\ <<root, values, nodes, roots, resume>>' = <<root, values, nodes, roots, resume>>
       /\ ctl.k = "exit_open" => ctl'.k \in {"exit_dump", "error"}
       /\ ctl.k = "exit_dump" =>
            /\ ctl'.k \in {"exit_open", "exited", "error"}
            /\ <<root, values, nodes, roots, resume>>' = <<root, values, nodes, roots, resume>>]_vars

C11_Witness ==
    /\ ctl.k = "exited" /\ resume # <<>>
    /\ exit_state.during = "SaveStateTree.insert"

Reverse(s) == [i \in 1..Len(s) |-> s[Len(s) + 1 - i]]

\* C12: the deferred items are retried last-deferred first, which is their
\* submission order: at every oracle call and every return, the values begun
\* (self.values) followed by the deferred ones (self.resume), latest first,
\* are the items submitted so far in the order they were submitted.
C12_ResumeLIFO ==
    ctl.k \in {"ask", "idle", "done"}
        => values \o Reverse(resume)
               = SubSeq(image_list, 1, Len(values) + Len(resume))

\* two items were deferred, the fourth and then the third; the third is
\* being inserted again by UndoTree.insert while the fourth still waits
C12_Witness ==
    /\ ctl.k = "ask" /\ undos = 2 /\ Len(image_list) = 4
    /\ resume = <<image_list[4]>>
    /\ Top(Cur).value = image_list[3]
    /\ \E i \in 1..Len(stack) : stack[i].f = "UndoTree.insert" /\ stack[i].phase = "resume"
    /\ \A i \in 1..Len(stack) : stack[i].f # "_redo"

\* C13: whenever insert or the constructor has returned normally, resume is
\* empty and every item submitted so far, and every item the opened file
\* held as deferred, is in the tree.
C13_DeferredRetriedFirst ==
    ctl.k = "idle"
        => /\ resume = <<>>
           /\ SeqSet(values) = SeqSet(to_list(root, FALSE))
           /\ \A i \in 1..(idx - 1) : image_list[i] \in SeqSet(to_list(root, FALSE))
           /\ saved.kind = "exit"
                  => SeqSet(saved.state.resume) \subseteq SeqSet(to_list(root, FALSE))

\* the constructor has returned, on a file that held a deferred item
C13_Witness ==
    /\ ctl.k = "idle" /\ idx = 1
    /\ saved.kind = "exit" /\ saved.state.resume # <<>>

\* C14: when the loop of _sort has gone through the whole list, in a first
\* session or after any number of EXIT and reopen (the skipped items being
\* those found in tree.values), each item of the list is in the tree exactly
\* once and in tree.values exactly once.
C14_IdempotentResubmission ==
    (ctl.k = "done" \/ (ctl.k = "idle" /\ idx > Len(image_list)))
        => /\ Len(to_list(root, FALSE)) = Len(image_list)
           /\ SeqSet(to_list(root, FALSE)) = SeqSet(image_list)
           /\ Len(values) = Len(image_list)
           /\ SeqSet(values) = SeqSet(image_list)

\* the session was opened on a file that held a deferred item, and the loop
\* has been through the whole list again
C14_Witness ==
    /\ ctl.k = "idle" /\ idx > Len(image_list)
    /\ Len(image_list) = 3
    /\ saved.kind = "exit" /\ saved.state.resume # <<>>
    /\ exits = 2

\* C15: after delete_file, called on a file that exists or on none, once or
\* several times in a row, nothing is at the filename and no exception has
\* reached the caller; a SaveStateTree opened then is empty and asks nothing.
C15_DeleteFileIdempotent ==
    saved.kind = "deleted"
        => /\ file = Absent
           /\ ctl.k = "error" => failed
           /\ (opened /\ idx = 1)
                  => /\ ctl.k = "idle"
                     /\ Pickle(Cur) = Pickle(EmptyTree)

\* a resumed session has finished and removed its file, delete_file was
\* called again, and the next session has opened
C15_Witness ==
    /\ saved.kind = "deleted" /\ saved.was = "state" /\ saved.calls = 2
    /\ opened /\ idx = 1 /\ ctl.k = "idle"

\* C16: SaveStateTree(filename) with no file at filename returns an empty
\* tree (root None; values, nodes, roots, resume empty) without an oracle
\* call, without an exception and without touching the storage.
C16_OpenAbsentIsEmpty ==
    [][(Open /\ file.kind = "absent")
           => /\ ctl'.k = "idle"
              /\ root' = NIL /\ values' = <<>> /\ nodes' = <<>>
              /\ roots' = <<>> /\ resume' = <<>> /\ stack' = <<>>
              /\ file' = file]_vars

\* a session opened on no file, after an earlier session that ended in a
\* failed write
C16_Witness ==
    /\ opened /\ idx = 1 /\ ctl.k = "idle"
    /\ file.kind = "absent" /\ failed
    /\ values = <<>>

\* no thread of image_sort can take another step: image_sort has returned
\* and the thread of _sort is over or waits for an event nobody will set
AppAtRest ==
    /\ app.state = "stopped" /\ app.returned
    /\ \/ app.sort = "ended"
       \/ app.sort \in {"wait_layout", "cmp_wait"} /\ ~app.event

\* C17: when the window was closed while the thread of _sort was inside a
\* comparison, then, whatever the interleaving, once the threads have come to
\* rest the thread of _sort has received Exit and is over, the file holds
\* the tree, and image_sort has returned an empty list.
C17_ClosedAppSaves ==
    (app.early /\ AppAtRest)
        => /\ app.sort = "ended"
           /\ ctl.k = "exited"
           /\ file.kind = "state"
           /\ app.result = <<>>

IsSorted(s) == \A i \in 1..(Len(s) - 1) : s[i] <= s[i + 1]
Count(s, x) == Cardinality({i \in 1..Len(s) : s[i] = x})
IsPermutation(s, t) ==
    /\ Len(s) = Len(t)
    /\ \A x \in 1..MaxKey : Count(s, x) = Count(t, x)

\* C18: for every input list, equal elements and odd lengths included,
\* merge_insertion_sort returns a list that is sorted ascending and is a
\* permutation of the input.
C18_SortsEveryList ==
    fj.pc = "returned" =>
        IsSorted(fj.result) /\ IsPermutation(fj.result, fj.list_)

\* the part of C18 that the code keeps: a list without equal elements comes
\* back sorted and permuted, and every result is a permutation of the input
C18_SortsDistinct ==
    fj.pc = "returned" =>
        /\ IsPermutation(fj.result, fj.list_)
        /\ (\A x \in 1..MaxKey : Count(fj.list_, x) <= 1) => IsSorted(fj.result)

\* C19: when the oracle answers UNDO at a node that is not the root, the
\* next oracle call compares the same item with the value of that node's
\* parent, the tree is the same, and the DecisionPath is the path at the
\* UNDO without its last entry, ending with the parent's value; so it is
\* after each further UNDO.
C19_UndoOneLevelUp ==
    [][(AnswerUndo /\ Top(Cur).at # <<>>) =>
         /\ ctl'.k = "ask"
         /\ Top(Cur').value = Top(Cur).value
         /\ Top(Cur').at = Front(Top(Cur).at)
         /\ root' = root
         /\ CallPair(Cur') = <<CallPair(Cur)[1], Sub(root, Front(Top(Cur).at)).value>>
         /\ Last(nodes') = Front(Last(nodes))
         /\ Last(Last(nodes')) = CallPair(Cur')[2]
         /\ Front(nodes') = Front(nodes)
         /\ values' = values /\ roots' = roots /\ resume' = resume]_vars

\* two UNDOs in a row, each at a node that was not the root: the first two
\* levels below the root, the second one level below it
C19_Witness ==
    /\ ctl.k = "ask"
    /\ last_undo.kind = "undo" /\ last_undo.streak = 2
    /\ Len(last_undo.at) = 1
    /\ Len(last_undo.path) = 2
    /\ Top(Cur).at = <<>>
    /\ Last(nodes) = <<root.value>>

\* UNDO one level below the root inside _redo, after a rollback
C19_WitnessRedo ==
    /\ ctl.k = "ask"
    /\ last_undo.kind = "undo" /\ last_undo.streak = 2
    /\ Len(last_undo.at) = 1
    /\ resume # <<>>
    /\ \E i \in 1..Len(stack) : stack[i].f = "_redo" /\ stack[i].phase = "handler"

\* the items of s are pairwise different
NoRepeat(s) == \A i, j \in 1..Len(s) : s[i] = s[j] => i = j

\* C20: when the oracle answers UNDO at the root while the SnapshotStack is
\* empty, the next oracle call compares the same item with the root value
\* again; the tree, ValueHistory (ending with that item), SnapshotStack
\* (empty) and PendingQueue are the same, and the DecisionPath holds only
\* the root value.  Between the comparisons of one insertion the answers
\* LESS and GREATER change none of these, so they are those of the
\* insertion's first comparison.  Once the insertions have ended every
\* submitted item is in the tree exactly once.
C20_UndoAtFirstRestarts ==
    /\ [][(AnswerUndo /\ Top(Cur).at = <<>> /\ roots = <<>>) =>
            /\ ctl'.k = "ask"
            /\ CallPair(Cur') = CallPair(Cur)
            /\ Top(Cur').at = <<>>
            /\ root' = root
            /\ values' = values /\ Last(values') = CallPair(Cur)[1]
            /\ roots' = <<>>
            /\ resume' = resume
            /\ nodes' = nodes
            /\ Last(nodes') = <<root.value>>]_vars
    /\ [][((AnswerLess \/ AnswerGreater) /\ ctl'.k = "ask" /\ values' = values) =>
            /\ root' = root /\ roots' = roots /\ resume' = resume
            /\ Front(nodes') = Front(nodes)]_vars
    /\ [](ctl.k \in {"idle", "done"} =>
            /\ NoRepeat(values)
            /\ NoRepeat(to_list(root, FALSE))
            /\ SeqSet(to_list(root, FALSE)) = SeqSet(values))

\* the comparison asked again after UNDO at the root with no snapshot
C20_Witness ==
    /\ ctl.k = "ask"
    /\ last_undo.kind = "undo"
    /\ last_undo.at = <<>>
    /\ last_undo.state.roots = <<>>
    /\ CallPair(Cur) = last_undo.pair
    /\ \E i \in 1..Len(stack) : stack[i].f = "_insert" /\ stack[i].phase = "restart"

\* the same after a rollback: the third item waits in the PendingQueue while
\* the insertion of the second is restarted
C20_WitnessPending ==
    /\ C20_Witness
    /\ last_undo.streak = 2
    /\ resume # <<>>

\* C21: when the oracle answers UNDO at the root while the SnapshotStack is
\* not empty, the interrupted item leaves ValueHistory and is pushed on the
\* PendingQueue, its DecisionPath is dropped, the top snapshot is popped
\* and becomes the live tree, and that tree is the tree of the items before
\* the previous one, as it was before the previous item was inserted.
C21_UndoAtRootRollsBack ==
    [][(AnswerUndo /\ Top(Cur).at = <<>> /\ roots # <<>>) =>
         /\ ctl'.k = "ask"
         /\ values' = Front(values)
         /\ resume' = Append(resume, Last(values))
         /\ Len(nodes') = Len(nodes) - 1
         /\ Front(nodes') = Front(Front(nodes))
         /\ roots' = Front(roots)
         /\ root' = Last(roots)
         /\ root' = InsertAll(NIL, Front(values'))
         /\ Top(Cur').value = Last(values')]_vars

\* a rollback to a snapshot of at least two nodes
C21_Witness ==
    /\ ctl.k = "ask"
    /\ last_undo.kind = "undo"
    /\ last_undo.at = <<>>
    /\ last_undo.state.roots # <<>>
    /\ root = Last(last_undo.state.roots)
    /\ resume = Append(last_undo.state.resume, last_undo.pair[1])
    /\ Size(root) >= 2

RECURSIVE PathValues(_, _)
\* the values of the nodes from node down along the directions of at
PathValues(node, at) ==
    IF at = <<>> THEN <<node.value>>
    ELSE <<node.value>>
         \o PathValues(IF Head(at) = "L" THEN node.left ELSE node.right, Tail(at))

\* the next oracle call compares item with the last value of path, at the
\* node that the recorded path leads to in the live tree, having asked
\* nothing on the way
ReplayedTo(item, path) ==
    /\ ctl'.k = "ask"
    /\ CallPair(Cur') = <<item, Last(path)>>
    /\ Last(nodes') = path
    /\ PathValues(root', Top(Cur').at) = path

\* C22: after a rollback, and after the opening of a saved state, the
\* recorded DecisionPath [v1..vk] of the previous item is walked without an
\* oracle call: the first oracle call compares that item with vk, at the
\* node reached from the root through v1..v(k-1), the branches taken first.
C22_ReplayAsksOnlyLast ==
    /\ [][(AnswerUndo /\ Top(Cur).at = <<>> /\ roots # <<>>) =>
            ReplayedTo(values[Len(values) - 1], nodes[Len(nodes) - 1])]_vars
    /\ [][(Open /\ file.kind = "state") =>
            (ReplayedTo(Last(file.values), Last(file.nodes)) /\ root' = file.root)]_vars

\* a rollback that replays a path of two nodes
C22_Witness ==
    /\ C21_Witness
    /\ Len(Last(nodes)) = 2
    /\ Len(Top(Cur).at) = 1

\* a saved state opened on a path of two nodes
C22_WitnessOpen ==
    /\ ctl.k = "ask" /\ opened /\ idx = 1
    /\ saved.kind = "exit"
    /\ Len(Last(nodes)) = 2
    /\ Len(Top(Cur).at) = 1

\* a recorded path is being replayed: a call of _redo has not returned
InReplay == \E i \in 1..Len(stack) : stack[i].f = "_redo"

\* C23: when the oracle answers UNDO at the oracle-driven step of a replay,
\* at the recorded node vj with j > 1, the next oracle call compares the
\* replayed item with v(j-1) in the same tree and the DecisionPath is
\* [v1..v(j-1)]; so it is at each further UNDO; and an UNDO at v1, the
\* root, is handled as an UNDO at the root: a rollback if the SnapshotStack
\* holds a snapshot, a restart of the insertion if it is empty.
C23_UndoInReplayCascades ==
    /\ [][(AnswerUndo /\ InReplay /\ Len(Last(nodes)) > 1) =>
            /\ ctl'.k = "ask"
            /\ root' = root /\ values' = values
            /\ roots' = roots /\ resume' = resume
            /\ Last(nodes') = Front(Last(nodes))
            /\ CallPair(Cur') = <<Last(values), Last(Last(nodes'))>>
            /\ PathValues(root', Top(Cur').at) = Last(nodes')]_vars
    /\ [][(AnswerUndo /\ InReplay /\ Len(Last(nodes)) = 1 /\ roots # <<>>) =>
            /\ values' = Front(values)
            /\ resume' = Append(resume, Last(values))
            /\ roots' = Front(roots) /\ root' = Last(roots)
            /\ ReplayedTo(values[Len(values) - 1], nodes[Len(nodes) - 1])]_vars
    /\ [][(AnswerUndo /\ InReplay /\ Len(Last(nodes)) = 1 /\ roots = <<>>) =>
            /\ ctl'.k = "ask"
            /\ CallPair(Cur') = CallPair(Cur)
            /\ root' = root /\ values' = values /\ roots' = <<>>
            /\ resume' = resume /\ nodes' = nodes]_vars

\* three UNDOs in a row: a rollback, then two in the replay of a path of
\* three nodes, which leave the replayed item compared with the root
C23_Witness ==
    /\ ctl.k = "ask"
    /\ InReplay
    /\ last_undo.kind = "undo" /\ last_undo.streak = 3
    /\ Len(last_undo.path) = 2
    /\ Len(last_undo.state.resume) = 1
    /\ Top(Cur).at = <<>>
    /\ Last(nodes) = <<root.value>>

\* UNDO at the root of a replay with a snapshot left: a second rollback
C23_WitnessRollback ==
    /\ ctl.k = "ask"
    /\ InReplay
    /\ last_undo.kind = "undo" /\ last_undo.streak >= 2
    /\ Len(last_undo.path) = 1
    /\ Len(last_undo.state.resume) = 1
    /\ last_undo.state.roots # <<>>
    /\ Len(resume) = 2

\* UNDO at the root of a replay with no snapshot left: a restart
C23_WitnessRestart ==
    /\ ctl.k = "ask"
    /\ last_undo.kind = "undo" /\ last_undo.streak >= 2
    /\ Len(last_undo.path) = 1
    /\ Len(last_undo.state.resume) = 1
    /\ last_undo.state.roots = <<>>
    /\ Len(resume) = 1

\* C24: once the first insertion has completed, whenever a top-level insert
\* has returned normally, after any LESS, GREATER and UNDO answers, rollbacks
\* and retries included, len(roots) = len(values) - 1.
C24_SnapshotCount ==
    (ctl.k \in {"idle", "done"} /\ values # <<>>) => Len(roots) = Len(values) - 1

\* four items inserted after three UNDOs, a rollback and a restart among
\* them
C24_Witness ==
    /\ ctl.k = "idle"
    /\ undos = 3
    /\ last_undo.rollbacks /\ last_undo.restarts
    /\ Len(values) = 4
    /\ Len(roots) = 3
    /\ resume = <<>>

\* C25: at every oracle call, in a first descent, after UNDOs, in a replay
\* and after the opening of a saved state, nodes[-1] is the sequence of node
\* values from the live root down to and including the node compared, and
\* values[-1] is the item compared.
C25_DecisionPathIsLivePath ==
    ctl.k = "ask" =>
        /\ nodes # <<>> /\ values # <<>>
        /\ Last(nodes) = PathValues(root, Top(Cur).at)
        /\ Last(Last(nodes)) = CallPair(Cur)[2]
        /\ Last(values) = CallPair(Cur)[1]

\* an oracle call two levels below the root in the replay that follows the
\* opening of a saved state, after an UNDO in an earlier session
C25_Witness ==
    /\ ctl.k = "ask" /\ opened /\ idx = 1
    /\ InReplay
    /\ undos >= 1
    /\ Len(Last(nodes)) = 2

\* C26: no operation on the live tree changes a snapshot stored in roots:
\* a step changes roots only at its top, a snapshot that is pushed is the
\* live tree as it was before the leaf was added, and every stored
\* snapshot is, as long as it is stored, the tree of the items that were
\* in ValueHistory before the item whose insertion pushed it.
C26_SnapshotsIndependent ==
    /\ [][/\ \A i \in 1..Min(Len(roots), Len(roots')) : roots'[i] = roots[i]
          /\ Len(roots') > Len(roots) =>
                 (Len(roots') = Len(roots) + 1 /\ Last(roots') = root)]_vars
    /\ [](ctl.k \in {"ask", "idle", "done"} =>
            \A i \in 1..Len(roots) : roots[i] = InsertAll(NIL, SubSeq(values, 1, i)))

\* three snapshots stored while the live tree has had a rotation or a shift
\* since the first was pushed: its root is no longer the first item
C26_Witness ==
    /\ ctl.k = "idle"
    /\ Len(roots) = 3
    /\ roots[2].value # root.value
    /\ last_undo.rollbacks

\* every node has the values of its left subtree below its own and those of
\* its right subtree above
BSTOrder(t) ==
    \A n \in Subtrees(t) :
        /\ \A x \in SeqSet(to_list(n.left, FALSE)) : x < n.value
        /\ \A y \in SeqSet(to_list(n.right, FALSE)) : y > n.value

\* C27: for any sequence of insert and delete calls on a MyTree of distinct
\* values every node has smaller values to its left and larger ones to its
\* right, to_list() holds exactly the values inserted and not deleted, each
\* once, and a right or left shift of a subtree leaves its in-order
\* sequence unchanged.
C27_OrderAndContentKept ==
    /\ [](BSTOrder(tree))
    /\ [][\A v \in 1..MaxVal :
            /\ TreeInsert(v) =>
                 /\ SeqSet(to_list(tree', FALSE)) = SeqSet(to_list(tree, FALSE)) \cup {v}
                 /\ Size(tree') = Size(tree) + 1
            /\ TreeDelete(v) =>
                 /\ SeqSet(to_list(tree', FALSE)) = SeqSet(to_list(tree, FALSE)) \ {v}
                 /\ Size(tree') = Size(tree) - 1]_vars
    /\ [](\A n \in Subtrees(tree) :
            /\ n.left # NIL => to_list(right_shift(n), FALSE) = to_list(n, FALSE)
            /\ n.right # NIL => to_list(left_shift(n), FALSE) = to_list(n, FALSE))

\* a tree of seven values left by a delete, with a subtree whose right shift
\* moves values and keeps the in-order sequence
C27_Witness ==
    /\ lastop = "delete"
    /\ Size(tree) = 7
    /\ \E n \in Subtrees(tree) :
          /\ n.left # NIL /\ n.right # NIL
          /\ right_shift(n) # n
          /\ to_list(right_shift(n), FALSE) = to_list(n, FALSE)

\* the child of the compared node on the side of the answer
AnswerDir == IF Truth(Cur) = "LESS" THEN "L" ELSE "R"

\* C28: the oracle is consulted once per node visited in the descent and
\* nowhere else.  The first call of an insertion is at the root with a
\* DecisionPath of one entry; each LESS or GREATER answer either moves the
\* comparison to the child on that side, with one more entry in the
\* DecisionPath and the tree untouched, or ends the insertion with its
\* DecisionPath as it was at the last call, so that without UNDO the calls
\* of an insertion are as many as the entries of its DecisionPath; and at
\* every call the live tree is the tree of the items inserted before, so
\* no answer (UNDO and EXIT included) arrives while the tree is rebalanced.
C28_OracleOnlyInDescent ==
    /\ [][(AnswerLess \/ AnswerGreater) =>
            IF ctl'.k = "ask" /\ values' = values
            THEN /\ Top(Cur').at = Append(Top(Cur).at, AnswerDir)
                 /\ Last(nodes') = Append(Last(nodes), CallPair(Cur')[2])
                 /\ root' = root
            ELSE /\ Len(nodes') >= Len(nodes)
                 /\ nodes'[Len(nodes)] = Last(nodes)
                 /\ Last(values) \in SeqSet(to_list(root', FALSE))]_vars
    /\ [][(Submit /\ ctl'.k = "ask") =>
            (Top(Cur').at = <<>> /\ Last(nodes') = <<root'.value>>)]_vars
    /\ [](ctl.k = "ask" =>
            /\ root = InsertAll(NIL, Front(values))
            /\ Top(Cur).f = "_insert" /\ Top(Cur).dir = "")

\* the insertion of the fourth item ends after two oracle calls, with a
\* DecisionPath of two entries, in a tree that a rotation or a shift has
\* given a root other than the first item
C28_Witness ==
    /\ ctl.k = "idle"
    /\ undos = 0 /\ exits = 0
    /\ Len(values) = 4
    /\ Len(Last(nodes)) = 2
    /\ root.value # values[1]

RECURSIVE Shape(_), Doubled(_)
\* the tree without its values
Shape(t) == IF t = NIL THEN NIL
            ELSE [left |-> Shape(t.left), right |-> Shape(t.right),
                  height |-> t.height, min_height |-> t.min_height]

\* the tree with every value x replaced by 2 * x
Doubled(t) == IF t = NIL THEN NIL
              ELSE [t EXCEPT !.value = 2 * t.value, !.left = Doubled(t.left),
                             !.right = Doubled(t.right)]

\* s is in non-decreasing order
NonDecreasing(s) == \A i \in 1..(Len(s) - 1) : s[i] <= s[i + 1]

\* C29: an item that is not less than a node, equal items included, goes
\* to the right exactly as a greater one does, and every completed insert
\* adds exactly one node: inserting v gives the shape that inserting a
\* value just above v gives, one more occurrence of v, the other values as
\* they were, and a to_list() one longer, in order.
C29_EqualGoesRightUnmerged ==
    /\ [][\A v \in 1..EqVal : TreeInsertEqual(v) =>
            /\ Size(tree') = Size(tree) + 1
            /\ \A x \in 1..EqVal :
                  Count(to_list(tree', FALSE), x)
                    = Count(to_list(tree, FALSE), x) + (IF x = v THEN 1 ELSE 0)
            /\ Shape(tree') = Shape(insert(Doubled(tree), 2 * v + 1))]_vars
    /\ [](NonDecreasing(to_list(tree, FALSE)))

\* seven inserts of one and the same value
C29_Witness ==
    /\ lastop = "insert"
    /\ to_list(tree, FALSE) = <<2, 2, 2, 2, 2, 2, 2>>
    /\ Height(tree) = 3

\* the stored fields of every node of t are the measured ones
Accurate(t) ==
    \A n \in Subtrees(t) : /\ n.height = Height(n)
                           /\ n.min_height = MinHeight(n)

\* C30: after every insert and delete on a MyTree, every node's stored
\* height is 1 + the longest path to an empty subtree below it and its
\* stored min_height is 1 + the shortest one; a rotation or a shift
\* applied to any subtree of such a tree leaves the fields accurate.
C30_StoredHeightsAccurate ==
    /\ Accurate(tree)
    /\ \A n \in Subtrees(tree) :
          /\ n.height = 1 + Max(get_height(n.left), get_height(n.right))
          /\ n.min_height = 1 + Min(get_min_height(n.left), get_min_height(n.right))
          /\ n.right # NIL => Accurate(left_rotate(n))
          /\ n.left # NIL => Accurate(right_rotate(n))
          /\ n.left # NIL => Accurate(right_shift(n))
          /\ n.right # NIL => Accurate(left_shift(n))

\* a delete has left six values in a tree whose longest and shortest paths
\* differ, and a left shift of the root changes the stored fields of a node
C30_Witness ==
    /\ lastop = "delete"
    /\ Size(tree) = 6
    /\ tree.height = 3
    /\ tree.min_height = 2
    /\ tree.right # NIL
    /\ left_shift(tree).left.min_height # tree.left.min_height

\* C31: while an insertion consults the oracle the live tree is the tree of
\* the items that were inserted before it began (after a rollback: the
\* restored snapshot), complete and rebalanced.  So it is at every oracle
\* call, at every EXIT while the state is written, and in every saved
\* state; and from one oracle call to the next the live tree is unchanged
\* within an insertion, is the popped snapshot after a rollback, and is the
\* finished tree when the next insertion has begun.
C31_LiveTreeUntouchedWhileAsking ==
    /\ [](ctl.k \in {"ask", "exit_open", "exit_dump"} =>
            root = InsertAll(NIL, Front(values)))
    /\ [](file.kind = "state" => file.root = InsertAll(NIL, Front(file.values)))
    /\ [][(ctl.k = "ask" /\ ctl'.k = "ask") =>
            \/ values' = values /\ root' = root
            \/ /\ roots # <<>>
               /\ values' = Front(values)
               /\ root' = Last(roots)
            \/ /\ Len(values') > Len(values)
               /\ root' = InsertAll(root, SubSeq(values', Len(values), Len(values') - 1))]_vars

\* the oracle is asked after a rollback: the live tree is the popped
\* snapshot of two items, no longer the tree of three the UNDO found
C31_Witness ==
    /\ ctl.k = "ask"
    /\ last_undo.kind = "undo"
    /\ last_undo.at = <<>>
    /\ last_undo.state.roots # <<>>
    /\ root = Last(last_undo.state.roots)
    /\ Size(root) = 2
    /\ Size(last_undo.state.root) = 3

\* a saved state written at an EXIT that followed a rollback
C31_WitnessSaved ==
    /\ file.kind = "state"
    /\ file.resume # <<>>
    /\ Size(file.root) = 2

\* C32: whenever a top-level insert has returned normally, nodes and values
\* have the same length, values is the items submitted so far, each once,
\* in the order they were submitted, and the tree holds exactly the items
\* of values, each once.
C32_HistoryConsistent ==
    ctl.k \in {"idle", "done"} =>
        /\ Len(nodes) = Len(values)
        /\ Len(values) >= idx - 1
        /\ \A i \in 1..Len(values) : values[i] = image_list[i]
        /\ \A x \in SeqSet(image_list) :
              /\ Count(values, x) <= 1
              /\ Count(to_list(root, FALSE), x) = Count(values, x)
        /\ Size(root) = Len(values)

\* five items are sorted, after a rollback and a restart
C32_Witness ==
    /\ ctl.k = "done"
    /\ last_undo.rollbacks
    /\ last_undo.restarts
    /\ Len(values) = 5
    /\ Len(nodes) = 5
    /\ Size(root) = 5

\* a UI action has set a response since compare's "response = None" and
\* has run both its statements
ResponseDelivered ==
    /\ app.sort \in {"cmp_clear", "cmp_wait", "cmp_read"}
    /\ app.response # "None"
    /\ app.ui \notin {"set", "stop_set"}

\* C33: a response that a UI action (select_left, select_right, undo,
\* on_stop) set while a call of compare is in progress reaches that call:
\* under every interleaving, once the action has set the response and the
\* event, compare is not blocked in event.wait() with the event clear.
C33_ResponseWakesCompare ==
    (ResponseDelivered /\ app.sort = "cmp_wait") => app.event

\* what does hold of the handshake: compare ends only in CmpRead, with the
\* response it reads there, which is not None and was set after this call's
\* "response = None"
C33_ReturnsWhatItReads ==
    [][/\ app.sort \in {"cmp_reset", "cmp_clear", "cmp_wait"}
            => app'.sort \in {"cmp_reset", "cmp_clear", "cmp_wait", "cmp_read"}
       /\ (app.sort = "cmp_read" /\ app'.sort \notin {"cmp_read", "cmp_clear"})
            => /\ app.response # "None"
               /\ app'.response = app.response]_vars

====
